---------------------------- MODULE Spec2Model ----------------------------
(***************************************************************************)
(* A model of the QA analytics core of lblanes25/mi_project:               *)
(*   - ReferenceDataManager   (src/reference_data_manager.py)              *)
(*   - DataSourceManager      (src/data_source_manager.py)                 *)
(*   - EnhancedDataProcessor  (src/enhanced_data_processor.py)             *)
(* Python dicts are functions whose DOMAIN is the key set, Python lists    *)
(* are sequences, None is the empty tuple and a present optional value x   *)
(* is <<x>>.  Times are integers counted in ticks, TicksPerDay to the day. *)
(***************************************************************************)
EXTENDS Integers, Sequences, FiniteSets, TLC

VARIABLES
    \* ---- ReferenceDataManager ----
    config,          \* self.config (reference_data.yaml), fixed after __init__
    reference_data,  \* self.reference_data : name -> data
    metadata,        \* self.metadata : name -> metadata dict
    audit_log,       \* self.audit_log : list of entries
    audit_file,      \* the persisted audit log document
    now,             \* datetime.datetime.now(), in ticks
    ref_op,          \* the last call on the manager and what it returned
    \* ---- column mapping (DataSourceManager._map_columns) ----
    columns_mapping, \* source_config['columns_mapping'], a list of entries
    df_columns,      \* list(df.columns) before and after each application
    column_mapping,  \* the rename dict built by the last application
    legacy_columns,  \* columns left by EnhancedDataProcessor._map_column_aliases
    \* ---- DataSourceManager ----
    registry_data,   \* the parsed data_sources.yaml, None when it cannot be read
    registry,        \* self.registry : source name -> source definition
    analytics_mapping, \* self.analytics_mapping : analytic id -> source name
    settings,        \* self.settings
    loaded_sources,  \* self.loaded_sources : source name -> loaded dataset
    src_op,          \* the last call on the manager and what it returned
    \* ---- EnhancedDataProcessor ----
    validations,     \* self.config['validations'], the rule declarations
    source_data,     \* self.source_data, None until a dataset is loaded
    proc_op,         \* the last call made on the processor
    thresholds,      \* self.config['thresholds']['error_percentage'], in 1/100 %
    summary,         \* what generate_summary returned, None before
    \* ---- EnhancedQAAnalyticsApp: its threads and manager instances ----
    thread_pc,       \* where each thread is: 0 is the Tk thread, w > 0 a worker
    manager_of,      \* the ReferenceDataManager instance a worker's processor made
    updating,        \* instance -> the calls of update_reference_data in progress on it, by thread
    log_writers,     \* instance -> the threads that assigned or appended its audit_log, in order
    status_var,      \* self.status_var, the text of the status bar
    progress,        \* self.progress is running (started and not stopped)
    after_queue,     \* the callbacks handed to root.after(0, ...) and not yet run
    \* ---- EnhancedDataProcessor.process_data ----
    proc_config,     \* self.config of the processor
    proc_warnings,   \* self.warnings
    results,         \* self.results, None until a run sets it
    steps,           \* the steps process_data has called, in order
    returned         \* the last call on the processor, its argument and what it returned

ref_vars == <<config, reference_data, metadata, audit_log, audit_file, now, ref_op>>
map_vars == <<columns_mapping, df_columns, column_mapping, legacy_columns>>

src_vars == <<registry_data, registry, analytics_mapping, settings,
              loaded_sources, src_op>>

proc_vars == <<validations, source_data, proc_op, thresholds, summary>>

app_vars == <<thread_pc, manager_of, updating, log_writers>>

ui_vars == <<status_var, progress, after_queue>>

run_vars == <<proc_config, proc_warnings, results, steps, returned>>

vars == <<ref_vars, map_vars, src_vars, proc_vars, app_vars, ui_vars, run_vars>>

\* What the calls on one component leave alone.
not_ref == <<ui_vars, map_vars, src_vars, proc_vars, app_vars, run_vars>>
not_map == <<ui_vars, ref_vars, src_vars, proc_vars, app_vars, run_vars>>
not_src == <<ui_vars, ref_vars, map_vars, proc_vars, app_vars, run_vars>>
not_proc == <<ui_vars, ref_vars, map_vars, src_vars, app_vars, run_vars>>
not_app == <<ref_vars, map_vars, src_vars, proc_vars, run_vars>>

(***************************************************************************)
(* Bounds of the model.                                                    *)
(***************************************************************************)
TicksPerDay == 2
MaxNow == 2
MaxLog == 2

(***************************************************************************)
(* Python helpers.                                                         *)
(***************************************************************************)
None == << >>
Some(x) == <<x>>

\* dict.get(key, default)
Get(d, key, default) == IF key \in DOMAIN d THEN d[key] ELSE default

\* d[key] = value on a dict
Put(d, key, value) ==
    [k \in (DOMAIN d) \cup {key} |-> IF k = key THEN value ELSE d[k]]

\* timedelta.days: whole days of a difference of two times, rounded down
Days(delta) == delta \div TicksPerDay

IsPrefix(s, t) ==
    /\ Len(s) <= Len(t)
    /\ \A i \in 1..Len(s) : s[i] = t[i]


(***************************************************************************)
(* The files the reference data manager is pointed at.  A file is          *)
(* described by what os.path.exists, os.path.splitext, os.path.getmtime    *)
(* and the pandas reader say about it.  cc_v1.csv is one tick short of 31  *)
(* days old at time 0, cc_v2.xlsx one tick short of one day old;           *)
(* corrupt.csv is a file on which the code inside the try block raises.    *)
(***************************************************************************)
RefPaths == {"cc_v1.csv", "cc_v2.xlsx", "missing.csv", "notes.txt",
             "corrupt.csv"}

CodeRows == << [code |-> "DE", name |-> "Germany"],
               [code |-> "FR", name |-> "France"],
               [code |-> "DE", name |-> "Deutschland"] >>

RefFile(path) ==
    CASE path = "cc_v1.csv" ->
           [exists |-> TRUE, ext |-> ".csv", mtime |-> 1 - 31 * TicksPerDay,
            reads |-> TRUE, columns |-> <<"code", "name">>, rows |-> CodeRows]
      [] path = "cc_v2.xlsx" ->
           [exists |-> TRUE, ext |-> ".xlsx", mtime |-> 1 - TicksPerDay,
            reads |-> TRUE, columns |-> <<"code", "name">>,
            rows |-> SubSeq(CodeRows, 1, 2)]
      [] path = "missing.csv" ->
           [exists |-> FALSE, ext |-> ".csv", mtime |-> 0,
            reads |-> FALSE, columns |-> << >>, rows |-> << >>]
      [] path = "notes.txt" ->
           [exists |-> TRUE, ext |-> ".txt", mtime |-> 0,
            reads |-> FALSE, columns |-> << >>, rows |-> << >>]
      [] path = "corrupt.csv" ->
           [exists |-> TRUE, ext |-> ".csv", mtime |-> 0,
            reads |-> FALSE, columns |-> << >>, rows |-> << >>]

(***************************************************************************)
(* reference_data.yaml.  country_codes is the scenario of the              *)
(* specification (dictionary, max_age_days 30); titles is a table with no  *)
(* max_age_days and no version; broken is a dictionary entry with neither  *)
(* path nor key_column.  "other" is a name with no entry.                  *)
(***************************************************************************)
RefNames == {"country_codes", "titles", "broken", "other"}

ReferenceFiles ==
    [country_codes |->
        [path |-> Some("cc_v1.csv"), format |-> "dictionary",
         key_column |-> Some("code"), value_column |-> Some("name"),
         version |-> "2.1", max_age_days |-> Some(30)],
     titles |->
        [path |-> Some("cc_v2.xlsx"), format |-> "dataframe"],
     broken |->
        [format |-> "dictionary", value_column |-> Some("name")]]

\* The default_max_age_days settings explored: key absent, null, 0 and 1.
RefConfigs ==
    {[reference_files |-> ReferenceFiles]}
      \cup {[reference_files |-> ReferenceFiles, default_max_age_days |-> d] :
               d \in {None, Some(0), Some(1)}}

DefaultMaxAgeDays == 30

Users == {"system"}
Overrides == {None, Some(0), Some(1), Some(30)}

Range(s) == {s[i] : i \in 1..Len(s)}

\* dict(zip(df[key_column], df[value_column])): a later row replaces an
\* earlier one with the same key
DictZip(rows, key_column, value_column) ==
    [k \in {rows[i][key_column] : i \in 1..Len(rows)} |->
        LET last == CHOOSE i \in 1..Len(rows) :
                      /\ rows[i][key_column] = k
                      /\ \A j \in (i+1)..Len(rows) : rows[j][key_column] # k
        IN rows[last][value_column]]


(***************************************************************************)
(* ReferenceDataManager.load_reference_data(name, file_path).  The result  *)
(* is what the call returns (ok) with the reference_data and metadata it   *)
(* leaves behind.  Every return False of the code is a Refused: the three  *)
(* checks before the try block, the unsupported extension, the missing     *)
(* key/value setting, and the except clause (a reader error, a KeyError    *)
(* of df[key_column]).  Nothing is stored before the last of them.         *)
(***************************************************************************)
\* Mutant of Refused: a refused load forgets what was loaded before.
RefusedAndCleared == [ok |-> FALSE, reference_data |-> << >>, metadata |-> << >>]

Refused == [ok |-> FALSE, reference_data |-> reference_data, metadata |-> metadata]

\* A variant that returns between the two assignments: the data is stored,
\* the metadata is not.
StoredWithoutMetadata(name, path, data) ==
    [ok |-> TRUE,
     reference_data |-> Put(reference_data, name, data),
     metadata |-> metadata]

Stored(name, path, data) ==
    LET f == RefFile(path)
        ref_config == config.reference_files[name]
    IN [ok |-> TRUE,
        reference_data |-> Put(reference_data, name, data),
        metadata |-> Put(metadata, name,
                         [last_modified |-> f.mtime,
                          file_path |-> path,
                          row_count |-> Len(f.rows),
                          columns |-> f.columns,
                          version |-> Get(ref_config, "version", "1.0"),
                          loaded_at |-> now])]

load_reference_data(name, file_path) ==
    IF name \notin DOMAIN Get(config, "reference_files", << >>)
    THEN Refused
    ELSE
    LET ref_config == config.reference_files[name]
        path_opt == IF file_path # None THEN file_path
                    ELSE Get(ref_config, "path", None)
    IN
    IF path_opt = None THEN Refused
    ELSE
    LET path == path_opt[1]
        f == RefFile(path)
    IN
    IF ~f.exists THEN Refused
    ELSE IF f.ext \notin {".xlsx", ".xls", ".csv"} THEN Refused
    ELSE IF ~f.reads THEN Refused
    ELSE IF Get(ref_config, "format", "") = "dictionary"
    THEN LET key_column == Get(ref_config, "key_column", None)
             value_column == Get(ref_config, "value_column", None)
         IN IF key_column = None \/ value_column = None THEN Refused
            ELSE IF ~({key_column[1], value_column[1]} \subseteq Range(f.columns))
            THEN Refused
            ELSE Stored(name, path,
                        [form |-> "dict",
                         items |-> DictZip(f.rows, key_column[1], value_column[1])])
    ELSE Stored(name, path, [form |-> "frame", rows |-> f.rows])

\* The call record kept for the properties: the operation, the value it
\* returned ("True", "False", "None", "data" or "TypeError") and, for the
\* two reads get and check, the name and the argument of the call.
Called(op, name, arg, ret) == [op |-> op, name |-> name, arg |-> arg, ret |-> ret]

Bool(b) == IF b THEN "True" ELSE "False"

LoadReferenceData(name, file_path) ==
    LET r == load_reference_data(name, file_path)
    IN /\ reference_data' = r.reference_data
       /\ metadata' = r.metadata
       /\ ref_op' = Called("load", "", None, Bool(r.ok))
       /\ UNCHANGED <<config, audit_log, audit_file, now>>
       /\ UNCHANGED not_ref

(***************************************************************************)
(* ReferenceDataManager.get_reference_data(name).                          *)
(***************************************************************************)
\* A variant that loads from the configured path on every call.
GetReferenceDataReloading(name) ==
    /\ LET r == load_reference_data(name, None)
       IN /\ reference_data' = r.reference_data
          /\ metadata' = r.metadata
          /\ ref_op' = Called("get", name, None,
                              IF name \in DOMAIN r.reference_data THEN "data" ELSE "None")
          /\ UNCHANGED <<config, audit_log, audit_file, now>>
    /\ UNCHANGED not_ref

GetReferenceData(name) ==
    /\ IF name \in DOMAIN reference_data
       THEN /\ ref_op' = Called("get", name, None, "data")
            /\ UNCHANGED <<config, reference_data, metadata, audit_log, audit_file, now>>
       ELSE LET r == load_reference_data(name, None)
            IN /\ reference_data' = r.reference_data
               /\ metadata' = r.metadata
               /\ ref_op' = Called("get", name, None, IF r.ok THEN "data" ELSE "None")
               /\ UNCHANGED <<config, audit_log, audit_file, now>>
    /\ UNCHANGED not_ref

(***************************************************************************)
(* ReferenceDataManager.check_freshness(name, max_age_days).  The max age  *)
(* compared against is the argument, else the definition's max_age_days,   *)
(* else config.get("default_max_age_days", 30); a default_max_age_days     *)
(* that is null reaches the comparison as None, which raises TypeError.    *)
(***************************************************************************)
\* Mutant of max_age_used: "if not max_age_days" in place of "is None", so
\* that an override of 0 is taken for no override.
max_age_used_falsy(name, max_age_days) ==
    IF max_age_days # None /\ max_age_days # Some(0) THEN max_age_days
    ELSE LET per_def ==
               IF name \in DOMAIN Get(config, "reference_files", << >>)
               THEN Get(config.reference_files[name], "max_age_days", None)
               ELSE None
         IN IF per_def # None THEN per_def
            ELSE Get(config, "default_max_age_days", Some(DefaultMaxAgeDays))

max_age_used(name, max_age_days) ==
    IF max_age_days # None THEN max_age_days
    ELSE LET per_def ==
               IF name \in DOMAIN Get(config, "reference_files", << >>)
               THEN Get(config.reference_files[name], "max_age_days", None)
               ELSE None
         IN IF per_def # None THEN per_def
            ELSE Get(config, "default_max_age_days", Some(DefaultMaxAgeDays))

\* Mutant of check_freshness: "<" in place of "<=".
check_freshness_strict(name, max_age_days) ==
    IF name \notin DOMAIN metadata THEN "False"
    ELSE LET limit == max_age_used(name, max_age_days)
             age == now - metadata[name].last_modified
         IN IF limit = None THEN "TypeError"
            ELSE Bool(Days(age) < limit[1])

check_freshness(name, max_age_days) ==
    IF name \notin DOMAIN metadata THEN "False"
    ELSE LET limit == max_age_used(name, max_age_days)
             age == now - metadata[name].last_modified
         IN IF limit = None THEN "TypeError"
            ELSE Bool(Days(age) <= limit[1])

CheckFreshness(name, max_age_days) ==
    /\ ref_op' = Called("check", name, max_age_days, check_freshness(name, max_age_days))
    /\ UNCHANGED <<config, reference_data, metadata, audit_log, audit_file, now>>
    /\ UNCHANGED not_ref


(***************************************************************************)
(* ReferenceDataManager._save_audit_log.  json.dump(..., default=str)      *)
(* writes every datetime as its string.  The write is one of: done; open   *)
(* refused (the document stays as it was); broken off after open(..., 'w') *)
(* truncated the document.  Both failures are caught and logged.           *)
(***************************************************************************)
DateStr(t) == <<"str", t>>

JsonMeta(m) ==
    [m EXCEPT !.last_modified = DateStr(@), !.loaded_at = DateStr(@)]

\* An entry that json.load read from the document holds strings already; in
\* the model it carries the field "loaded" to tell it from an entry made in
\* this process, whose datetimes json.dump turns into strings.
JsonEntry(e) ==
    IF "loaded" \in DOMAIN e
    THEN [k \in DOMAIN e \ {"loaded"} |-> e[k]]
    ELSE [e EXCEPT !.timestamp = DateStr(@),
                   !.previous_version = IF @ = None THEN None ELSE Some(JsonMeta(@[1])),
                   !.new_version = JsonMeta(@)]

JsonDump(log) == [i \in 1..Len(log) |-> JsonEntry(log[i])]

SaveOutcomes == {"written", "open_failed", "write_failed"}

save_audit_log(log, outcome) ==
    CASE outcome = "written"      -> [state |-> "json", entries |-> JsonDump(log)]
      [] outcome = "open_failed"  -> audit_file
      [] outcome = "write_failed" -> [state |-> "truncated", entries |-> << >>]

(***************************************************************************)
(* ReferenceDataManager.update_reference_data(name, file_path, user).      *)
(***************************************************************************)
log_entry(name, user, prev_version, new_version) ==
    [timestamp |-> now,
     action |-> "update_reference",
     name |-> name,
     user |-> user,
     previous_version |-> prev_version,
     new_version |-> new_version]

\* Mutant of update_reference_data: the log is assigned the new entry
\* instead of being appended to.
update_reference_data_assigning(name, file_path, user, outcome) ==
    LET prev_version == IF name \in DOMAIN metadata THEN Some(metadata[name])
                        ELSE None
        r == load_reference_data(name, Some(file_path))
    IN IF ~r.ok
       THEN [ok |-> FALSE, reference_data |-> r.reference_data,
             metadata |-> r.metadata, audit_log |-> audit_log,
             audit_file |-> audit_file]
       ELSE LET log == << log_entry(name, user, prev_version, r.metadata[name]) >>
            IN [ok |-> TRUE, reference_data |-> r.reference_data,
                metadata |-> r.metadata, audit_log |-> log,
                audit_file |-> save_audit_log(log, outcome)]

\* A variant that reads the previous version after the load instead of
\* before it.
update_reference_data_late_snapshot(name, file_path, user, outcome) ==
    LET r == load_reference_data(name, Some(file_path))
        prev_version == IF name \in DOMAIN r.metadata THEN Some(r.metadata[name])
                        ELSE None
    IN IF ~r.ok
       THEN [ok |-> FALSE, reference_data |-> r.reference_data,
             metadata |-> r.metadata, audit_log |-> audit_log,
             audit_file |-> audit_file]
       ELSE LET log == Append(audit_log,
                              log_entry(name, user, prev_version, r.metadata[name]))
            IN [ok |-> TRUE, reference_data |-> r.reference_data,
                metadata |-> r.metadata, audit_log |-> log,
                audit_file |-> save_audit_log(log, outcome)]

update_reference_data(name, file_path, user, outcome) ==
    LET prev_version == IF name \in DOMAIN metadata THEN Some(metadata[name])
                        ELSE None
        r == load_reference_data(name, Some(file_path))
    IN IF ~r.ok
       THEN [ok |-> FALSE, reference_data |-> r.reference_data,
             metadata |-> r.metadata, audit_log |-> audit_log,
             audit_file |-> audit_file]
       ELSE LET log == Append(audit_log,
                              log_entry(name, user, prev_version, r.metadata[name]))
            IN [ok |-> TRUE, reference_data |-> r.reference_data,
                metadata |-> r.metadata, audit_log |-> log,
                audit_file |-> save_audit_log(log, outcome)]

\* A variant of update_reference_data that gives up when the log cannot be
\* written: it restores what it had and returns False.
UpdateReferenceDataRollingBack(name, file_path, user, outcome) ==
    /\ Len(audit_log) < MaxLog
    /\ LET r == update_reference_data(name, file_path, user, outcome)
           kept == r.ok /\ outcome = "written"
       IN /\ reference_data' = IF kept \/ ~r.ok THEN r.reference_data ELSE reference_data
          /\ metadata' = IF kept \/ ~r.ok THEN r.metadata ELSE metadata
          /\ audit_log' = IF kept THEN r.audit_log ELSE audit_log
          /\ audit_file' = r.audit_file
          /\ ref_op' = Called("update", "", IF r.ok THEN Some(outcome) ELSE None, Bool(kept))
    /\ UNCHANGED <<config, now>>
    /\ UNCHANGED not_ref

UpdateReferenceData(name, file_path, user, outcome) ==
    /\ Len(audit_log) < MaxLog
    /\ LET r == update_reference_data(name, file_path, user, outcome)
       IN /\ reference_data' = r.reference_data
          /\ metadata' = r.metadata
          /\ audit_log' = r.audit_log
          /\ audit_file' = r.audit_file
          /\ ref_op' = Called("update", "", IF r.ok THEN Some(outcome) ELSE None, Bool(r.ok))
    /\ UNCHANGED <<config, now>>
    /\ UNCHANGED not_ref

\* Time passes between calls.
Tick ==
    /\ now < MaxNow
    /\ now' = now + 1
    /\ ref_op' = Called("tick", "", None, "None")
    /\ UNCHANGED <<config, reference_data, metadata, audit_log, audit_file>>
    /\ UNCHANGED not_ref

(***************************************************************************)
(* A ReferenceDataManager after __init__ (no audit log document yet) and   *)
(* the calls made on it, the audit log document being writable.            *)
(***************************************************************************)
\* The column mapping variables while no mapping is in hand.
IdleMap ==
    /\ columns_mapping = << >>
    /\ df_columns = << >>
    /\ column_mapping = << >>
    /\ legacy_columns = None

\* The data source manager while it is not in use.
IdleSrc ==
    /\ registry_data = None
    /\ registry = << >>
    /\ analytics_mapping = << >>
    /\ settings = << >>
    /\ loaded_sources = << >>
    /\ src_op = Called("init", "", None, "None")

\* No application around the component under study.
IdleApp ==
    /\ thread_pc = << >>
    /\ manager_of = << >>
    /\ updating = << >>
    /\ log_writers = << >>
    /\ status_var = "Ready"
    /\ progress = FALSE
    /\ after_queue = << >>

\* No pipeline run on the component under study.
IdleRun ==
    /\ proc_config = << >>
    /\ proc_warnings = << >>
    /\ results = None
    /\ steps = << >>
    /\ returned = None

\* The processor while it is not in use.
IdleProc ==
    /\ validations = << >>
    /\ source_data = None
    /\ proc_op = "init"
    /\ thresholds = 0
    /\ summary = None

InitRef ==
    /\ IdleMap
    /\ IdleSrc
    /\ IdleProc
    /\ IdleApp
    /\ IdleRun
    /\ config = [reference_files |-> ReferenceFiles]
    /\ reference_data = << >>
    /\ metadata = << >>
    /\ audit_log = << >>
    /\ audit_file = [state |-> "absent", entries |-> << >>]
    /\ now = 0
    /\ ref_op = Called("init", "", None, "None")

NextRef ==
    \/ \E name \in RefNames : GetReferenceData(name)
    \/ \E name \in RefNames, file_path \in {None} \cup {Some(p) : p \in RefPaths} :
          LoadReferenceData(name, file_path)
    \/ \E name \in RefNames : CheckFreshness(name, None)
    \/ \E name \in RefNames, file_path \in RefPaths, user \in Users :
          UpdateReferenceData(name, file_path, user, "written")

SpecRef == InitRef /\ [][NextRef]_vars

(***************************************************************************)
(* The same manager under every default_max_age_days setting, read with    *)
(* every override while time passes.                                       *)
(***************************************************************************)
InitFresh ==
    /\ IdleMap
    /\ IdleSrc
    /\ IdleProc
    /\ IdleApp
    /\ IdleRun
    /\ config \in RefConfigs
    /\ reference_data = << >>
    /\ metadata = << >>
    /\ audit_log = << >>
    /\ audit_file = [state |-> "absent", entries |-> << >>]
    /\ now = 0
    /\ ref_op = Called("init", "", None, "None")

NextFresh ==
    \/ \E name \in RefNames : GetReferenceData(name)
    \/ \E name \in RefNames, file_path \in {None} \cup {Some(p) : p \in RefPaths} :
          LoadReferenceData(name, file_path)
    \/ \E name \in RefNames, max_age_days \in Overrides :
          CheckFreshness(name, max_age_days)
    \/ Tick

SpecFresh == InitFresh /\ [][NextFresh]_vars

(***************************************************************************)
(* The life of the audit log document: updates of country_codes whose save *)
(* succeeds or fails, and restarts, a restart being the __init__ of a new  *)
(* ReferenceDataManager on the same configuration and the same document.   *)
(* _init_audit_log reads the document when it exists; when the read or the *)
(* parse raises, the manager starts with an empty log.                     *)
(***************************************************************************)
ReadOutcomes == {"read", "read_failed"}

LogNames == {"country_codes", "other"}
LogPaths == {"cc_v1.csv", "cc_v2.xlsx", "missing.csv"}

\* ReferenceDataManager._init_audit_log: self.audit_log after it.
init_audit_log(read_outcome) ==
    IF audit_file.state = "json" /\ read_outcome = "read"
    THEN [i \in 1..Len(audit_file.entries) |-> Put(audit_file.entries[i], "loaded", TRUE)]
    ELSE << >>

Restart(read_outcome) ==
    /\ reference_data' = << >>
    /\ metadata' = << >>
    /\ audit_log' = init_audit_log(read_outcome)
    /\ ref_op' = Called("init", "", None, "None")
    /\ UNCHANGED <<config, audit_file, now>>
    /\ UNCHANGED not_ref

InitLog == InitRef

NextLog ==
    \/ \E name \in LogNames : GetReferenceData(name)
    \/ \E name \in LogNames, file_path \in LogPaths, user \in Users, outcome \in SaveOutcomes :
          UpdateReferenceData(name, file_path, user, outcome)
    \/ \E read_outcome \in ReadOutcomes : Restart(read_outcome)

SpecLog == InitLog /\ [][NextLog]_vars

\* One manager over its life in a process: get, check_freshness and update
\* calls while time passes.
InitAudit == InitRef

NextAudit ==
    \/ \E name \in LogNames : GetReferenceData(name)
    \/ \E name \in LogNames : CheckFreshness(name, None)
    \/ \E name \in LogNames, file_path \in LogPaths, user \in Users, outcome \in SaveOutcomes :
          UpdateReferenceData(name, file_path, user, outcome)
    \/ Tick

SpecAudit == InitAudit /\ [][NextAudit]_vars


(***************************************************************************)
(* Properties of the ReferenceDataManager.                                 *)
(***************************************************************************)

\* What load_reference_data makes of the file at path for the definition
\* ref_config, told by its rows: the table, or for a dictionary the value
\* of the last row of each key.
MadeFrom(data, path, ref_config) ==
    LET rows == RefFile(path).rows
    IN IF Get(ref_config, "format", "") = "dictionary"
       THEN /\ data.form = "dict"
            /\ DOMAIN data.items =
                  {rows[i][ref_config.key_column[1]] : i \in 1..Len(rows)}
            /\ \A i \in 1..Len(rows) :
                  (\A j \in (i + 1)..Len(rows) :
                      rows[j][ref_config.key_column[1]] # rows[i][ref_config.key_column[1]])
                    => data.items[rows[i][ref_config.key_column[1]]] =
                          rows[i][ref_config.value_column[1]]
       ELSE /\ data.form = "frame"
            /\ data.rows = rows

\* C29: after every load, get and update call, successful or not, a name
\* has loaded reference data iff it has metadata, and the metadata is that
\* of the load that produced the data: the data is what the file at
\* metadata.file_path yields for the definition, and the modification
\* time, row count and columns recorded are those of that file.
C29_DataIffMetadata ==
    /\ DOMAIN reference_data = DOMAIN metadata
    /\ \A name \in DOMAIN reference_data :
          LET md == metadata[name]
              f == RefFile(md.file_path)
          IN /\ name \in DOMAIN config.reference_files
             /\ f.exists
             /\ MadeFrom(reference_data[name], md.file_path, config.reference_files[name])
             /\ md.last_modified = f.mtime
             /\ md.row_count = Len(f.rows)
             /\ md.columns = f.columns
             /\ md.loaded_at <= now

\* A name loaded from its configured file and then updated from another
\* file: data and metadata are those of the second file.
C29_Witness ==
    /\ ref_op.op = "update" /\ ref_op.ret = "True"
    /\ "country_codes" \in DOMAIN reference_data
    /\ metadata["country_codes"].file_path = "cc_v2.xlsx"
    /\ Len(audit_log) = 1
    /\ audit_log[1].previous_version # None
    /\ audit_log[1].previous_version[1].file_path = "cc_v1.csv"
    /\ DOMAIN reference_data["country_codes"].items = {"DE", "FR"}
    /\ reference_data["country_codes"].items["DE"] = "Germany"

C2_AuditLogAppendOnly ==
    [][ /\ IsPrefix(audit_log, audit_log')
        /\ (ref_op'.op = "update" /\ ref_op'.ret = "True"
              => Len(audit_log') = Len(audit_log) + 1)
        /\ (ref_op'.op = "update" /\ ref_op'.ret = "False"
              => Len(audit_log') = Len(audit_log))
        /\ (ref_op'.op # "update" => audit_log' = audit_log) ]_vars

\* A second successful update of the same name has been appended behind
\* the first.
C2_Witness ==
    /\ ref_op.op = "update" /\ ref_op.ret = "True"
    /\ Len(audit_log) = 2
    /\ audit_log[1].name = audit_log[2].name
    /\ audit_log[1].new_version.file_path # audit_log[2].new_version.file_path

\* C3: update_reference_data is all-or-nothing: a call that returns False
\* leaves the reference data, the metadata and the audit log (of every
\* name) exactly as they were before the call.
C3_FailedUpdateChangesNothing ==
    [][ ref_op'.op = "update" /\ ref_op'.ret = "False"
          => /\ reference_data' = reference_data
             /\ metadata' = metadata
             /\ audit_log' = audit_log ]_vars

\* An update has failed on a manager that holds loaded data and a log entry.
C3_Witness ==
    /\ ref_op.op = "update" /\ ref_op.ret = "False"
    /\ "country_codes" \in DOMAIN reference_data
    /\ "country_codes" \in DOMAIN metadata
    /\ Len(audit_log) = 1

\* name is configured with a default path from which it can be loaded.
LoadableByDefault(name) ==
    /\ name \in DOMAIN config.reference_files
    /\ "path" \in DOMAIN config.reference_files[name]
    /\ config.reference_files[name].path # None
    /\ LET ref_config == config.reference_files[name]
           f == RefFile(ref_config.path[1])
       IN /\ f.exists
          /\ f.reads
          /\ f.ext \in {".xlsx", ".xls", ".csv"}
          /\ Get(ref_config, "format", "") = "dictionary" =>
                /\ {"key_column", "value_column"} \subseteq DOMAIN ref_config
                /\ ref_config.key_column # None /\ ref_config.value_column # None
                /\ {ref_config.key_column[1], ref_config.value_column[1]}
                      \subseteq Range(f.columns)

C16_PersistedLogAppendOnly ==
    [][ /\ IsPrefix(audit_file.entries, audit_file'.entries)
        /\ (ref_op'.op = "update" /\ ref_op'.arg = Some("written"))
              => audit_file'.entries = JsonDump(audit_log') ]_vars

\* What C16 says of the saves that succeed: the document then equals the
\* in-memory log.
SavedLogEqualsMemory ==
    [][ (ref_op'.op = "update" /\ ref_op'.arg = Some("written"))
          => (audit_file'.state = "json" /\ audit_file'.entries = JsonDump(audit_log')) ]_vars

\* C17: an update whose audit log write fails is not rolled back: it
\* returns True, the new data and metadata are in force, the in-memory log
\* has the new entry, and the document has not received it (it is what it
\* was, or emptied by the broken write).
C17_FailedSaveKeepsUpdate ==
    [][ (ref_op'.op = "update"
           /\ ref_op'.arg \in {Some("open_failed"), Some("write_failed")}) =>
          /\ ref_op'.ret = "True"
          /\ Len(audit_log') = Len(audit_log) + 1
          /\ IsPrefix(audit_log, audit_log')
          /\ LET entry == audit_log'[Len(audit_log')]
             IN /\ entry.name \in DOMAIN reference_data'
                /\ metadata'[entry.name] = entry.new_version
                /\ RefFile(entry.new_version.file_path).exists
                /\ entry.previous_version =
                      (IF entry.name \in DOMAIN metadata
                       THEN Some(metadata[entry.name]) ELSE None)
          /\ (audit_file' = audit_file \/ audit_file'.entries = << >>) ]_vars

\* An update replaced loaded data while the document could not be opened:
\* the log in memory is one entry ahead of the document.
C17_Witness ==
    /\ ref_op.op = "update" /\ ref_op.arg = Some("open_failed") /\ ref_op.ret = "True"
    /\ Len(audit_log) = 2
    /\ audit_file.state = "json"
    /\ Len(audit_file.entries) = 1
    /\ metadata["country_codes"].file_path = "cc_v2.xlsx"
    /\ audit_log[2].previous_version # None

\* The age of name's loaded file in whole days, from the definition of a
\* whole day rather than by division.
AgeInWholeDays(name) ==
    LET delta == now - metadata[name].last_modified
    IN CHOOSE d \in -1..(32 + MaxNow) :
          d * TicksPerDay <= delta /\ delta < (d + 1) * TicksPerDay

\* C6: check_freshness on a loaded name returns True iff the age in whole
\* days is <= the max age in force (equal is fresh, one more is stale); on a
\* name that was never loaded it returns False.
C6_FreshIffAgeWithinMaxAge ==
    ref_op.op = "check" /\ ref_op.ret # "TypeError" =>
        IF ref_op.name \in DOMAIN metadata
        THEN LET limit == max_age_used(ref_op.name, ref_op.arg)[1]
                 age == AgeInWholeDays(ref_op.name)
             IN /\ (ref_op.ret = "True") = (age <= limit)
                /\ (age = limit => ref_op.ret = "True")
                /\ (age = limit + 1 => ref_op.ret = "False")
        ELSE ref_op.ret = "False"

\* The scenario: country_codes has max_age_days 30, its file is 31 days
\* old, and check_freshness has returned False.
C6_Witness ==
    /\ ref_op.op = "check" /\ ref_op.name = "country_codes" /\ ref_op.arg = None
    /\ "country_codes" \in DOMAIN metadata
    /\ AgeInWholeDays("country_codes") = 31
    /\ ref_op.ret = "False"

\* The max age the claim describes: the override when one is given, else
\* the definition's max_age_days when configured, else default_max_age_days
\* when configured, else 30.
EffectiveMaxAge(name, override) ==
    LET files == config.reference_files
    IN IF override # None THEN override[1]
       ELSE IF /\ name \in DOMAIN files
               /\ "max_age_days" \in DOMAIN files[name]
               /\ files[name].max_age_days # None
       THEN files[name].max_age_days[1]
       ELSE IF "default_max_age_days" \in DOMAIN config
       THEN config.default_max_age_days[1]
       ELSE 30

MaxMappingSize == 3
MaxApplications == 2

NameOrder == <<"Amount", "Amt", "Total">>
NameSet == Range(NameOrder)

\* The alias lists of at most n distinct names of S, in every order.
RECURSIVE AliasLists(_, _)
AliasLists(S, n) ==
    IF n = 0 THEN {<< >>}
    ELSE {<< >>} \cup UNION {{<<x>> \o al : al \in AliasLists(S \ {x}, n - 1)} : x \in S}

\* The mapping entries {source, aliases, target} that name at most w columns
\* besides the target.
EntriesUpTo(w) ==
    UNION {{[source |-> src, aliases |-> al, target |-> tgt] :
               tgt \in NameSet, al \in AliasLists(NameSet \ {src}, w - 1)} :
           src \in NameSet}

\* Every columns_mapping list whose entries name at most w columns together.
RECURSIVE MappingsUpTo(_)
MappingsUpTo(w) ==
    IF w = 0 THEN {<< >>}
    ELSE {<< >>} \cup
         UNION {{<<e>> \o m : m \in MappingsUpTo(w - 1 - Len(e.aliases))} :
                e \in EntriesUpTo(w)}

\* The datasets: one column list for every set of the names.
ColumnLists == {SelectSeq(NameOrder, LAMBDA x : x \in S) : S \in SUBSET NameSet}

\* A variant whose loop over the aliases has no break: the last alias that
\* is a column is the one left in the rename dict.
RECURSIVE last_alias_in(_, _)
last_alias_in(aliases, columns) ==
    IF aliases = << >> THEN ""
    ELSE IF last_alias_in(Tail(aliases), columns) # ""
    THEN last_alias_in(Tail(aliases), columns)
    ELSE IF Head(aliases) \in Range(columns) THEN Head(aliases)
    ELSE ""

\* The first alias, in declared order, that is a column; "" when none is.
RECURSIVE first_alias_in(_, _)
first_alias_in(aliases, columns) ==
    IF aliases = << >> THEN ""
    ELSE IF Head(aliases) \in Range(columns) THEN Head(aliases)
    ELSE first_alias_in(Tail(aliases), columns)

\* The loop of DataSourceManager._map_columns over the entries: the rename
\* dict, every test being made on the columns the dataset came with.
RECURSIVE build_column_mapping(_, _, _)
build_column_mapping(entries, columns, mapping) ==
    IF entries = << >> THEN mapping
    ELSE LET col_mapping == Head(entries)
             source_col == Get(col_mapping, "source", "")
             aliases == Get(col_mapping, "aliases", << >>)
             target_col == Get(col_mapping, "target", "")
             alias == first_alias_in(aliases, columns)
             rest == Tail(entries)
         IN IF source_col = "" \/ target_col = ""
            THEN build_column_mapping(rest, columns, mapping)
            ELSE IF source_col \in Range(columns)
            THEN build_column_mapping(rest, columns, Put(mapping, source_col, target_col))
            ELSE IF alias # ""
            THEN build_column_mapping(rest, columns, Put(mapping, alias, target_col))
            ELSE build_column_mapping(rest, columns, mapping)

\* df.rename(columns=mapping) on the column list
rename(columns, mapping) ==
    [i \in 1..Len(columns) |-> Get(mapping, columns[i], columns[i])]

\* A variant that renames as it goes: each entry is tested on the columns
\* the entries before it have left.
RECURSIVE map_columns_entry_by_entry(_, _)
map_columns_entry_by_entry(columns, entries) ==
    IF entries = << >> THEN columns
    ELSE map_columns_entry_by_entry(
             rename(columns, build_column_mapping(<<Head(entries)>>, columns, << >>)),
             Tail(entries))

\* DataSourceManager._map_columns(df, source_config), on the columns
map_columns(columns, entries) ==
    rename(columns, build_column_mapping(entries, columns, << >>))

\* The loop of EnhancedDataProcessor._map_column_aliases over
\* config['source']['required_columns'].
RECURSIVE build_alias_mapping(_, _, _)
build_alias_mapping(required_columns, columns, mapping) ==
    IF required_columns = << >> THEN mapping
    ELSE LET column_info == Head(required_columns)
             std_name == column_info.name
             alias == first_alias_in(Get(column_info, "alias", << >>), columns)
             rest == Tail(required_columns)
         IN IF std_name \in Range(columns)
            THEN build_alias_mapping(rest, columns, mapping)
            ELSE IF alias # ""
            THEN build_alias_mapping(rest, columns, Put(mapping, alias, std_name))
            ELSE build_alias_mapping(rest, columns, mapping)

\* EnhancedDataProcessor._map_column_aliases, on the columns
map_column_aliases(columns, required_columns) ==
    rename(columns, build_alias_mapping(required_columns, columns, << >>))

\* The same definition in the legacy format: standard name and aliases.
RequiredColumns(entries) ==
    [i \in 1..Len(entries) |-> [name |-> entries[i].target, alias |-> entries[i].aliases]]

Last(s) == s[Len(s)]

\* _map_columns applied to the dataset as the previous application left it.
MapColumns ==
    /\ Len(df_columns) <= MaxApplications
    /\ df_columns' = Append(df_columns, map_columns(Last(df_columns), columns_mapping))
    /\ column_mapping' = build_column_mapping(columns_mapping, Last(df_columns), << >>)
    /\ UNCHANGED <<columns_mapping, legacy_columns>>
    /\ UNCHANGED not_map

\* _map_column_aliases applied to the dataset as it came.
MapColumnAliases ==
    /\ legacy_columns = None
    /\ legacy_columns' =
          Some(map_column_aliases(df_columns[1], RequiredColumns(columns_mapping)))
    /\ UNCHANGED <<columns_mapping, df_columns, column_mapping>>
    /\ UNCHANGED not_map

\* The reference data manager while it is not in use.
IdleRef ==
    /\ config = [reference_files |-> << >>]
    /\ reference_data = << >>
    /\ metadata = << >>
    /\ audit_log = << >>
    /\ audit_file = [state |-> "absent", entries |-> << >>]
    /\ now = 0
    /\ ref_op = Called("init", "", None, "None")

InitMap ==
    /\ IdleRef
    /\ IdleSrc
    /\ IdleProc
    /\ IdleApp
    /\ IdleRun
    /\ columns_mapping \in MappingsUpTo(MaxMappingSize)
    /\ \E columns \in ColumnLists : df_columns = <<columns>>
    /\ column_mapping = << >>
    /\ legacy_columns = None

NextMap ==
    \/ MapColumns
    \/ MapColumnAliases

SpecMap == InitMap /\ [][NextMap]_vars

\* _map_columns applied once, to the dataset as the reader returned it.
MapColumnsAsRead ==
    /\ Len(df_columns) = 1
    /\ MapColumns

InitBatch == InitMap

NextBatch == MapColumnsAsRead

SpecBatch == InitBatch /\ [][NextBatch]_vars


(***************************************************************************)
(* Properties of column mapping.                                           *)
(***************************************************************************)

\* C8: column mapping is idempotent: for every dataset and every source
\* definition the second application of _map_columns leaves the column set
\* the first application produced.
C8_MapColumnsIdempotent ==
    Len(df_columns) >= 3 => Range(df_columns[3]) = Range(df_columns[2])

\* The positions of the columns labelled name.
Labelled(columns, name) == {i \in 1..Len(columns) : columns[i] = name}

\* C9: for each mapping entry whose canonical (target) name is already a
\* column, _map_columns renames nothing to that name, whatever else of the
\* entry is present, so that the name never comes to label two columns.
C9_CanonicalWins ==
    Len(df_columns) = 2 =>
        \A i \in 1..Len(columns_mapping) :
            LET target_col == columns_mapping[i].target
            IN target_col \in Range(df_columns[1]) =>
                  /\ \A c \in DOMAIN column_mapping :
                        column_mapping[c] = target_col => c = target_col
                  /\ Cardinality(Labelled(df_columns[2], target_col)) <= 1

\* What C9 says, of the legacy EnhancedDataProcessor._map_column_aliases:
\* a standard name that is already a column never comes to label two.
LegacyCanonicalWins ==
    legacy_columns # None =>
        \A i \in 1..Len(columns_mapping) :
            LET std_name == columns_mapping[i].target
            IN std_name \in Range(df_columns[1]) =>
                  /\ Labelled(legacy_columns[1], std_name) \subseteq Labelled(df_columns[1], std_name)
                  /\ Cardinality(Labelled(legacy_columns[1], std_name)) <= 1

\* The aliases of an entry that are columns with no alias before them in
\* the declared order being one: at most one alias.
FirstPresent(aliases, columns) ==
    {aliases[k] : k \in {k \in 1..Len(aliases) :
        /\ aliases[k] \in Range(columns)
        /\ \A j \in 1..(k - 1) : aliases[j] \notin Range(columns)}}

\* The column an entry has renamed: its source column when that is
\* present, otherwise its first present alias, otherwise none.
Chosen(entry, columns) ==
    IF entry.source \in Range(columns) THEN {entry.source}
    ELSE FirstPresent(entry.aliases, columns)

\* C24: for a mapping entry whose source column is not present,
\* _map_columns renames exactly one column, the first alias in declared
\* order that is present: that alias is renamed (to the entry's target
\* unless a later entry renames the same column), a later alias of the
\* entry that is also present is renamed only if another entry chose it,
\* and when no alias is present the entry renames nothing.
C24_FirstPresentAliasOnly ==
    Len(df_columns) >= 2 =>
        LET columns == df_columns[Len(df_columns) - 1]
            renamed == Last(df_columns)
            entries == columns_mapping
        IN /\ DOMAIN column_mapping =
                 UNION {Chosen(entries[i], columns) : i \in 1..Len(entries)}
           /\ \A i \in 1..Len(entries) :
                 entries[i].source \notin Range(columns) =>
                    \A alias \in FirstPresent(entries[i].aliases, columns) :
                       /\ alias \in DOMAIN column_mapping
                       /\ (\A j \in (i + 1)..Len(entries) :
                               alias \notin Chosen(entries[j], columns))
                             => /\ column_mapping[alias] = entries[i].target
                                /\ \A p \in Labelled(columns, alias) :
                                       renamed[p] = entries[i].target
           /\ \A p \in 1..Len(columns) :
                 columns[p] \notin DOMAIN column_mapping => renamed[p] = columns[p]

\* An entry without its source column and with two aliases present: the
\* first one is renamed, the second one keeps its name.
C24_Witness ==
    /\ Len(df_columns) = 2
    /\ \E i \in 1..Len(columns_mapping) :
          LET entry == columns_mapping[i]
          IN /\ entry.source \notin Range(df_columns[1])
             /\ Len(entry.aliases) = 2
             /\ Range(entry.aliases) \subseteq Range(df_columns[1])
             /\ entry.aliases[1] \in DOMAIN column_mapping
             /\ \E p \in Labelled(df_columns[1], entry.aliases[1]) :
                   df_columns[2][p] = entry.target
             /\ \E p \in Labelled(df_columns[1], entry.aliases[2]) :
                   df_columns[2][p] = entry.aliases[2]

\* The orders in which n entries can be listed.
Orders(n) == {f \in [1..n -> 1..n] : \A i, j \in 1..n : f[i] = f[j] => i = j}

\* entries listed in the order f
Reordered(entries, f) == [i \in 1..Len(entries) |-> entries[f[i]]]

\* The entries that rename the column labelled name.
Choosing(entries, columns, name) ==
    {i \in 1..Len(entries) : name \in Chosen(entries[i], columns)}

\* No column is renamed by two entries to two targets.
Unambiguous(entries, columns) ==
    \A name \in Range(columns) :
        \A i, j \in Choosing(entries, columns, name) :
            entries[i].target = entries[j].target

\* C25 as stated: every rename is computed on the original columns and the
\* renames are applied as one batch, so that the result of _map_columns is
\* the same in whatever order the mapping entries are listed.
C25_OrderOfEntriesIrrelevant ==
    Len(df_columns) >= 2 =>
        \A f \in Orders(Len(columns_mapping)) :
            map_columns(df_columns[Len(df_columns) - 1],
                        Reordered(columns_mapping, f)) = Last(df_columns)

\* C25, amended: every entry is tested on the original columns and the
\* renames are applied as one batch: a column that no entry chooses keeps
\* its name and a column that entries choose takes the target of the last
\* entry choosing it, whatever the other entries rename; the result is the
\* same in every order of the entries when no column is renamed by two
\* entries to two targets.
C25_BatchOnOriginalColumns ==
    Len(df_columns) >= 2 =>
        LET columns == df_columns[Len(df_columns) - 1]
            renamed == Last(df_columns)
            entries == columns_mapping
        IN /\ \A p \in 1..Len(columns) :
                 LET choosing == Choosing(entries, columns, columns[p])
                 IN renamed[p] =
                       IF choosing = {} THEN columns[p]
                       ELSE entries[CHOOSE i \in choosing :
                                       \A j \in choosing : j <= i].target
           /\ Unambiguous(entries, columns) =>
                 \A f \in Orders(Len(entries)) :
                     map_columns(columns, Reordered(entries, f)) = renamed

\* Two entries that exchange the names of two columns of the dataset, and
\* both renames have taken effect.
C25_Witness ==
    /\ Len(df_columns) = 2
    /\ \E i, j \in 1..Len(columns_mapping) :
          LET a == columns_mapping[i].source
              b == columns_mapping[j].source
          IN /\ a # b
             /\ columns_mapping[i].target = b
             /\ columns_mapping[j].target = a
             /\ {a, b} \subseteq Range(df_columns[1])
             /\ Unambiguous(columns_mapping, df_columns[1])
             /\ \A p \in Labelled(df_columns[1], a) : df_columns[2][p] = b
             /\ \A p \in Labelled(df_columns[1], b) : df_columns[2][p] = a


(***************************************************************************)
(* DataSourceManager.  data_sources.yaml declares two sources: vendor_risk *)
(* (an Excel sheet with validation rules, an aliased column and a date     *)
(* column) and payments (a csv without rules).  "unlisted" is a source     *)
(* name the registry does not know.                                        *)
(***************************************************************************)
MaxMappings == 2

SourceNames == {"vendor_risk", "payments", "unlisted"}
AnalyticIds == {"1001", "1002", "1003"}
ExcelExts == {".xlsx", ".xls"}
FreshnessWarningDays == 7

DataSources ==
    [s \in {"vendor_risk", "payments"} |->
        IF s = "vendor_risk"
        THEN [file_type |-> "xlsx",
              sheet_name |-> "Data",
              columns_mapping |->
                  << [source |-> "Amount", aliases |-> <<"Amt">>,
                      target |-> "Amount", data_type |-> "float"],
                     [source |-> "Date", aliases |-> << >>,
                      target |-> "Invoice Date", data_type |-> "date"] >>,
              validation_rules |->
                  << [type |-> "row_count_min", threshold |-> 5],
                     [type |-> "required_columns", columns |-> <<"Vendor", "Amount">>] >>]
        ELSE [file_type |-> "csv",
              columns_mapping |->
                  << [source |-> "Total", aliases |-> <<"Amt">>,
                      target |-> "Amount", data_type |-> "float"] >>]]

\* The entries an analytics_mapping list is made of; data_source "" is an
\* entry without data_source (mapping.get('data_source') is falsy).
MappingEntries ==
    {[data_source |-> s, analytics |-> a] :
        s \in {"vendor_risk", "payments", ""},
        a \in {<< >>, <<"1001">>, <<"1002">>, <<"1001", "1002">>}}

RECURSIVE MappingLists(_)
MappingLists(n) ==
    IF n = 0 THEN {<< >>}
    ELSE {<< >>} \cup {<<e>> \o l : e \in MappingEntries, l \in MappingLists(n - 1)}

RegistryDoc(entries) ==
    [data_sources |-> DataSources, analytics_mapping |-> entries]

\* What yaml.safe_load gives for the registry file, None when the file is
\* absent or unreadable.
RegistryDocs == {None} \cup {Some(RegistryDoc(l)) : l \in MappingLists(MaxMappings)}

StandardRegistry ==
    RegistryDoc(<< [data_source |-> "vendor_risk", analytics |-> <<"1001">>],
                   [data_source |-> "payments", analytics |-> <<"1002">>] >>)

\* A variant of the inner loop in which an analytic keeps its first source.
RECURSIVE map_analytics_first_wins(_, _, _)
map_analytics_first_wins(analytics, data_source, mapping) ==
    IF analytics = << >> THEN mapping
    ELSE map_analytics_first_wins(Tail(analytics), data_source,
            IF Head(analytics) \in DOMAIN mapping THEN mapping
            ELSE Put(mapping, Head(analytics), data_source))

\* for analytic_id in analytics: self.analytics_mapping[analytic_id] = data_source
RECURSIVE map_analytics(_, _, _)
map_analytics(analytics, data_source, mapping) ==
    IF analytics = << >> THEN mapping
    ELSE map_analytics(Tail(analytics), data_source,
                       Put(mapping, Head(analytics), data_source))

\* for mapping in registry_data.get('analytics_mapping', [])
RECURSIVE build_analytics_mapping(_, _)
build_analytics_mapping(entries, mapping) ==
    IF entries = << >> THEN mapping
    ELSE LET data_source == Get(Head(entries), "data_source", "")
             analytics == Get(Head(entries), "analytics", << >>)
         IN build_analytics_mapping(Tail(entries),
                IF data_source # "" /\ analytics # << >>
                THEN map_analytics(analytics, data_source, mapping)
                ELSE mapping)

\* DataSourceManager._load_registry: the three attributes it leaves.
load_registry(doc) ==
    IF doc = None
    THEN [settings |-> << >>, registry |-> << >>, analytics_mapping |-> << >>]
    ELSE [settings |-> Get(doc[1], "settings", << >>),
          registry |-> Get(doc[1], "data_sources", << >>),
          analytics_mapping |->
              build_analytics_mapping(Get(doc[1], "analytics_mapping", << >>), << >>)]

\* DataSourceManager.get_data_source_for_analytic
get_data_source_for_analytic(analytic_id) ==
    IF analytic_id \in DOMAIN analytics_mapping
    THEN Some(analytics_mapping[analytic_id])
    ELSE None

GetDataSourceForAnalytic(analytic_id) ==
    /\ src_op' = Called("get_source", analytic_id, None,
                        get_data_source_for_analytic(analytic_id))
    /\ UNCHANGED <<registry_data, registry, analytics_mapping, settings, loaded_sources>>
    /\ UNCHANGED not_src

(***************************************************************************)
(* The data files.  vendor.xlsx is the good workbook (its amount column    *)
(* under the alias Amt); vendor_small.xlsx has 4 rows and is 8 days old;   *)
(* vendor.csv lacks the Amount column; nosheet.xlsx has no sheet "Data";   *)
(* corrupt.xlsx makes the reader raise; empty.xlsx and dump.txt have no    *)
(* rows; missing.xlsx and gone.txt do not exist.                           *)
(***************************************************************************)
DataPaths == {"vendor.xlsx", "vendor_small.xlsx", "vendor.csv", "nosheet.xlsx",
              "corrupt.xlsx", "empty.xlsx", "dump.txt", "missing.xlsx", "gone.txt"}

DataFile(path) ==
    CASE path = "vendor.xlsx" ->
           [exists |-> TRUE, ext |-> ".xlsx", reads |-> TRUE, sheets |-> {"Data"},
            row_count |-> 6, columns |-> <<"Vendor", "Amt", "Date">>, mtime |-> 0]
      [] path = "vendor_small.xlsx" ->
           [exists |-> TRUE, ext |-> ".xlsx", reads |-> TRUE, sheets |-> {"Data"},
            row_count |-> 4, columns |-> <<"Vendor", "Amount", "Amt">>,
            mtime |-> 0 - 8 * TicksPerDay]
      [] path = "vendor.csv" ->
           [exists |-> TRUE, ext |-> ".csv", reads |-> TRUE, sheets |-> {},
            row_count |-> 6, columns |-> <<"Vendor", "Total">>, mtime |-> 0]
      [] path = "nosheet.xlsx" ->
           [exists |-> TRUE, ext |-> ".xlsx", reads |-> TRUE, sheets |-> {"Sheet1"},
            row_count |-> 5, columns |-> <<"Vendor", "Amount">>, mtime |-> 0]
      [] path = "corrupt.xlsx" ->
           [exists |-> TRUE, ext |-> ".xlsx", reads |-> FALSE, sheets |-> {},
            row_count |-> 0, columns |-> << >>, mtime |-> 0]
      [] path = "empty.xlsx" ->
           [exists |-> TRUE, ext |-> ".xlsx", reads |-> TRUE, sheets |-> {"Data"},
            row_count |-> 0, columns |-> <<"Vendor", "Amount">>, mtime |-> 0]
      [] path = "dump.txt" ->
           [exists |-> TRUE, ext |-> ".txt", reads |-> TRUE, sheets |-> {},
            row_count |-> 0, columns |-> << >>, mtime |-> 0]
      [] path = "missing.xlsx" ->
           [exists |-> FALSE, ext |-> ".xlsx", reads |-> FALSE, sheets |-> {},
            row_count |-> 0, columns |-> << >>, mtime |-> 0]
      [] OTHER ->
           [exists |-> FALSE, ext |-> ".txt", reads |-> FALSE, sheets |-> {},
            row_count |-> 0, columns |-> << >>, mtime |-> 0]

\* pd.read_excel / pd.read_csv return a dataset: read_excel raises when the
\* file cannot be parsed or the configured sheet is not in the workbook.
reader_returns(source_config, f) ==
    /\ f.reads
    /\ (f.ext \in ExcelExts /\ "sheet_name" \in DOMAIN source_config)
          => source_config.sheet_name \in f.sheets

\* A variant that knows the required_columns rule only.
RECURSIVE validate_data_columns_only(_, _)
validate_data_columns_only(df, rules) ==
    IF rules = << >> THEN << >>
    ELSE LET rule == Head(rules)
             missing_cols == SelectSeq(Get(rule, "columns", << >>),
                                       LAMBDA col : col \notin Range(df.columns))
         IN (IF Get(rule, "type", "") = "required_columns" /\ missing_cols # << >>
             THEN << <<"Missing required columns">> \o missing_cols >>
             ELSE << >>) \o validate_data_columns_only(df, Tail(rules))

\* DataSourceManager._validate_data: one warning per rule that is not met.
RECURSIVE validate_data(_, _)
validate_data(df, rules) ==
    IF rules = << >> THEN << >>
    ELSE LET rule == Head(rules)
             rule_type == Get(rule, "type", "")
             missing_cols == SelectSeq(Get(rule, "columns", << >>),
                                       LAMBDA col : col \notin Range(df.columns))
             warning ==
                 IF rule_type = "row_count_min"
                 THEN IF df.row_count < Get(rule, "threshold", 0)
                      THEN << <<"Row count is below minimum threshold">> >>
                      ELSE << >>
                 ELSE IF rule_type = "required_columns" /\ missing_cols # << >>
                      THEN << <<"Missing required columns">> \o missing_cols >>
                      ELSE << >>
         IN warning \o validate_data(df, Tail(rules))

\* DataSourceManager._convert_date_columns: the target of every entry of
\* data_type date that is a column is converted; pd.to_datetime of a label
\* that two columns carry raises, which is caught, and converts nothing.
convert_date_columns(df, entries) ==
    LET date_columns ==
            {entries[i].target : i \in {j \in 1..Len(entries) :
                /\ Get(entries[j], "data_type", "") = "date"
                /\ Get(entries[j], "target", "") \in Range(df.columns)}}
    IN [df EXCEPT !.datetime =
           @ \cup {col \in date_columns :
                      Cardinality({i \in 1..Len(df.columns) : df.columns[i] = col}) = 1}]

\* return False, None, [message]
NotLoaded(message) ==
    [raised |-> FALSE, success |-> FALSE, df |-> None, warnings |-> <<message>>,
     loaded_sources |-> loaded_sources]

\* The try block of load_data_source; its except clause turns whatever the
\* reader raises into the failure result.
load_in_try(source_name, file_path) ==
    LET source_config == registry[source_name]
        f == DataFile(file_path)
        file_ext == f.ext
        expected_type == Get(source_config, "file_type", "xlsx")
        mismatch == IF expected_type = "xlsx" /\ file_ext \notin ExcelExts
                    THEN << <<"File type mismatch", file_ext>> >>
                    ELSE << >>
        entries == Get(source_config, "columns_mapping", << >>)
        raw == [columns |-> f.columns, row_count |-> f.row_count, datetime |-> {}]
        validation_warnings ==
            validate_data(raw, Get(source_config, "validation_rules", << >>))
        mapped == [raw EXCEPT !.columns = map_columns(raw.columns, entries)]
        df == convert_date_columns(mapped, entries)
        last_modified == f.mtime
        \* a number n of the settings document is Some(n), its null is None
        freshness_days == Get(settings, "data_freshness_warning",
                              Some(FreshnessWarningDays))
        data_age == Days(now - last_modified)
        collected == mismatch \o validation_warnings
        warnings == collected \o
                    (IF freshness_days # None /\ data_age > freshness_days[1]
                     THEN << <<"Data source is days old", source_name>> >>
                     ELSE << >>)
        \* self.loaded_sources[source_name] = {...}; its 'warnings' is the
        \* list the freshness check appends to afterwards
        stored(listed) ==
            Put(loaded_sources, source_name,
                [data |-> df,
                 file_path |-> file_path,
                 last_modified |-> last_modified,
                 row_count |-> df.row_count,
                 columns |-> df.columns,
                 loaded_at |-> now,
                 warnings |-> listed])
    IN IF file_ext \notin ExcelExts \cup {".csv"}
       THEN NotLoaded(<<"Unsupported file type", file_ext>>)
       ELSE IF ~reader_returns(source_config, f)
       THEN NotLoaded(<<"Error loading data source", file_path>>)
       ELSE IF raw.row_count = 0
       THEN NotLoaded(<<"Data source contains no rows", source_name>>)
       ELSE IF freshness_days = None
       THEN \* data_age > None raises TypeError, after the dataset was stored
            [raised |-> FALSE, success |-> FALSE, df |-> None,
             warnings |-> << <<"Error loading data source", file_path>> >>,
             loaded_sources |-> stored(collected)]
       ELSE [raised |-> FALSE, success |-> TRUE, df |-> Some(df), warnings |-> warnings,
             loaded_sources |-> stored(warnings)]

\* A variant that looks for the file before it looks for the source.
load_data_source_file_first(source_name, file_path) ==
    IF ~DataFile(file_path).exists
    THEN NotLoaded(<<"Data file not found", file_path>>)
    ELSE IF source_name \notin DOMAIN registry
    THEN NotLoaded(<<"Data source not found in registry", source_name>>)
    ELSE load_in_try(source_name, file_path)

\* DataSourceManager.load_data_source(source_name, file_path)
load_data_source(source_name, file_path) ==
    IF source_name \notin DOMAIN registry
    THEN NotLoaded(<<"Data source not found in registry", source_name>>)
    ELSE IF ~DataFile(file_path).exists
    THEN NotLoaded(<<"Data file not found", file_path>>)
    ELSE load_in_try(source_name, file_path)

LoadDataSource(source_name, file_path) ==
    LET r == load_data_source(source_name, file_path)
    IN /\ loaded_sources' = r.loaded_sources
       /\ src_op' = Called("load", source_name, Some(file_path),
                           [raised |-> r.raised, success |-> r.success,
                            df |-> r.df, warnings |-> r.warnings])
       /\ UNCHANGED <<registry_data, registry, analytics_mapping, settings>>
       /\ UNCHANGED not_src

\* DataSourceManager.__init__ on the registry document doc.
Constructed(doc) ==
    /\ registry_data = doc
    /\ registry = load_registry(doc).registry
    /\ analytics_mapping = load_registry(doc).analytics_mapping
    /\ settings = load_registry(doc).settings
    /\ loaded_sources = << >>
    /\ src_op = Called("init", "", None, "None")

\* A manager on the registry above, asked to load every file under every
\* source name.
InitSrc ==
    /\ IdleRef
    /\ IdleMap
    /\ IdleProc
    /\ IdleApp
    /\ IdleRun
    /\ Constructed(Some(StandardRegistry))

NextSrc ==
    \/ \E source_name \in SourceNames, file_path \in DataPaths :
          LoadDataSource(source_name, file_path)
    \/ \E analytic_id \in AnalyticIds : GetDataSourceForAnalytic(analytic_id)

SpecSrc == InitSrc /\ [][NextSrc]_vars

\* The settings sections explored: absent, a threshold of ten days, and a
\* data_freshness_warning key left without a value (null).
RegistrySettings ==
    {None, Some([data_freshness_warning |-> Some(10)]),
     Some([data_freshness_warning |-> None])}

SettingsDoc(section) ==
    IF section = None THEN StandardRegistry
    ELSE Put(StandardRegistry, "settings", section[1])

\* A manager on the registry above under each settings section, asked to
\* load every file under every source name.
InitStore ==
    /\ IdleRef
    /\ IdleMap
    /\ IdleProc
    /\ IdleApp
    /\ IdleRun
    /\ \E section \in RegistrySettings : Constructed(Some(SettingsDoc(section)))

NextStore ==
    \E source_name \in SourceNames, file_path \in DataPaths :
        LoadDataSource(source_name, file_path)

SpecStore == InitStore /\ [][NextStore]_vars

\* A manager on every registry document, asked for the source of every id.
InitReg ==
    /\ IdleRef
    /\ IdleMap
    /\ IdleProc
    /\ IdleApp
    /\ IdleRun
    /\ \E doc \in RegistryDocs : Constructed(doc)

NextReg ==
    \E analytic_id \in AnalyticIds : GetDataSourceForAnalytic(analytic_id)

SpecReg == InitReg /\ [][NextReg]_vars

(***************************************************************************)
(* Properties of the DataSourceManager.                                    *)
(***************************************************************************)

\* C4: load_data_source never raises; when it fails it returns
\* (False, None, [message]) with exactly one message, and the message is
\* that of the first check that fails in the order: source registered,
\* file exists, extension supported (the reader raising is caught), dataset
\* not empty.
C4_LoadFailsInOrder ==
    src_op.op = "load" =>
        LET r == src_op.ret
            f == DataFile(src_op.arg[1])
            source_name == src_op.name
            registered == source_name \in DOMAIN registry_data[1].data_sources
            supported == f.ext \in {".xlsx", ".xls", ".csv"}
            Failure(text) == /\ r.success = FALSE
                             /\ r.df = None
                             /\ Len(r.warnings) = 1
                             /\ r.warnings[1][1] = text
        IN /\ ~r.raised
           /\ ~registered => Failure("Data source not found in registry")
           /\ (registered /\ ~f.exists) => Failure("Data file not found")
           /\ (registered /\ f.exists /\ ~supported) => Failure("Unsupported file type")
           /\ (registered /\ f.exists /\ supported
                 /\ ~reader_returns(registry[source_name], f))
                 => Failure("Error loading data source")
           /\ (registered /\ f.exists /\ supported
                 /\ reader_returns(registry[source_name], f) /\ f.row_count = 0)
                 => Failure("Data source contains no rows")
           /\ (registered /\ f.exists /\ supported
                 /\ reader_returns(registry[source_name], f) /\ f.row_count > 0)
                 => (r.success = TRUE /\ r.df # None)

\* A load of an unregistered source from a file that does not exist was
\* refused for the source, the first check.
C4_Witness ==
    /\ src_op.op = "load"
    /\ src_op.name = "unlisted"
    /\ ~DataFile(src_op.arg[1]).exists
    /\ src_op.ret.success = FALSE
    /\ src_op.ret.warnings = << <<"Data source not found in registry", "unlisted">> >>

\* C11: the row_count_min and required_columns rules of a source are
\* advisory: whether a load succeeds does not depend on them, and a load that
\* succeeds on a file below the threshold, or lacking a required column,
\* carries the warning of the rule.
C11_ValidationRulesAreAdvisory ==
    (src_op.op = "load" /\ src_op.name \in DOMAIN registry) =>
        LET r == src_op.ret
            f == DataFile(src_op.arg[1])
            source_config == registry[src_op.name]
            rules == Get(source_config, "validation_rules", << >>)
            loadable == /\ f.exists
                        /\ f.ext \in {".xlsx", ".xls", ".csv"}
                        /\ reader_returns(source_config, f)
                        /\ f.row_count > 0
            below == \E i \in 1..Len(rules) :
                         /\ rules[i].type = "row_count_min"
                         /\ f.row_count < rules[i].threshold
            missing == \E i \in 1..Len(rules) :
                           /\ rules[i].type = "required_columns"
                           /\ \E k \in 1..Len(rules[i].columns) :
                                  rules[i].columns[k] \notin Range(f.columns)
        IN /\ r.success = loadable
           /\ r.success =>
                 /\ below <=> <<"Row count is below minimum threshold">> \in Range(r.warnings)
                 /\ missing <=> \E w \in Range(r.warnings) : w[1] = "Missing required columns"

\* The 4-row workbook was loaded under vendor_risk (threshold 5): success,
\* with the warning.
C11_Witness ==
    /\ src_op.op = "load"
    /\ src_op.name = "vendor_risk"
    /\ DataFile(src_op.arg[1]).row_count = 4
    /\ src_op.ret.success
    /\ <<"Row count is below minimum threshold">> \in Range(src_op.ret.warnings)

\* The file type load_data_source infers from an extension it can read.
InferredType(file_ext) ==
    IF file_ext \in ExcelExts THEN "xlsx" ELSE IF file_ext = ".csv" THEN "csv" ELSE "other"

\* C21: whenever the type inferred from the extension differs from the
\* source's expected file_type, whichever the expected type, a load that the
\* file allows succeeds and carries a file-type mismatch warning.
C21_MismatchWarnedNotFatal ==
    (src_op.op = "load" /\ src_op.name \in DOMAIN registry) =>
        LET r == src_op.ret
            f == DataFile(src_op.arg[1])
            source_config == registry[src_op.name]
            expected_type == Get(source_config, "file_type", "xlsx")
            loadable == /\ f.exists
                        /\ f.ext \in {".xlsx", ".xls", ".csv"}
                        /\ reader_returns(source_config, f)
                        /\ f.row_count > 0
        IN (loadable /\ InferredType(f.ext) # expected_type) =>
               /\ r.success
               /\ \E w \in Range(r.warnings) : w[1] = "File type mismatch"

\* The half of C21 the code has: a file that is not a workbook, loaded under
\* a source that expects xlsx, loads with the mismatch warning.
XlsxMismatchWarnedNotFatal ==
    (src_op.op = "load" /\ src_op.name \in DOMAIN registry) =>
        LET r == src_op.ret
            f == DataFile(src_op.arg[1])
            source_config == registry[src_op.name]
        IN (r.success /\ Get(source_config, "file_type", "xlsx") = "xlsx") =>
               (f.ext \notin ExcelExts <=>
                    \E w \in Range(r.warnings) : w[1] = "File type mismatch")

\* C22: a load that fails after the file-type mismatch warning was collected
\* returns that warning with its error.
C22_FailureCarriesWarnings ==
    (src_op.op = "load" /\ src_op.name \in DOMAIN registry) =>
        LET r == src_op.ret
            f == DataFile(src_op.arg[1])
            source_config == registry[src_op.name]
            warned == /\ f.exists
                      /\ Get(source_config, "file_type", "xlsx") = "xlsx"
                      /\ f.ext \notin ExcelExts
        IN (warned /\ ~r.success) =>
               \E w \in Range(r.warnings) : w[1] = "File type mismatch"

\* C27: the required-column check of a load sees the columns after column
\* resolution: a required column the file supplies under the source name or
\* an alias of a mapping entry with that target is not reported missing.
C27_RequiredCheckedAfterResolution ==
    (src_op.op = "load" /\ src_op.name \in DOMAIN registry /\ src_op.ret.success) =>
        LET r == src_op.ret
            f == DataFile(src_op.arg[1])
            source_config == registry[src_op.name]
            entries == Get(source_config, "columns_mapping", << >>)
            supplied(col) ==
                \/ col \in Range(f.columns)
                \/ \E i \in 1..Len(entries) :
                      /\ entries[i].target = col
                      /\ \/ entries[i].source \in Range(f.columns)
                         \/ \E alias \in Range(entries[i].aliases) :
                               alias \in Range(f.columns)
        IN \A w \in Range(r.warnings) :
               w[1] = "Missing required columns" =>
                   \A col \in Range(Tail(w)) : ~supplied(col)

\* What loaded_sources[source_name] has to say of the load the manager just
\* answered: the returned dataset and warnings, the file and its times.
DescribesLoad(entry, call) ==
    /\ call.ret.df # None
    /\ entry.data = call.ret.df[1]
    /\ entry.file_path = call.arg[1]
    /\ entry.last_modified = DataFile(call.arg[1]).mtime
    /\ entry.row_count = DataFile(call.arg[1]).row_count
    /\ entry.columns = call.ret.df[1].columns
    /\ entry.warnings = call.ret.warnings

\* C23: a successful load_data_source replaces the entry of its source by
\* one that describes that load alone (data, file path, modification time,
\* row count, columns, warnings) and leaves every other entry as it was; a
\* failed load leaves loaded_sources unchanged, so that a source has an
\* entry iff a load of it has succeeded.
C23_LoadedSourcesTracksSuccess ==
    [][src_op'.op = "load" =>
          IF src_op'.ret.success
          THEN /\ DOMAIN loaded_sources' = DOMAIN loaded_sources \cup {src_op'.name}
               /\ DescribesLoad(loaded_sources'[src_op'.name], src_op')
               /\ \A other \in DOMAIN loaded_sources \ {src_op'.name} :
                      loaded_sources'[other] = loaded_sources[other]
          ELSE loaded_sources' = loaded_sources]_vars

\* The entries of the registry document that name a source for analytic_id.
Naming(analytic_id) ==
    LET entries == IF registry_data = None THEN << >>
                   ELSE registry_data[1].analytics_mapping
    IN {i \in 1..Len(entries) :
           /\ entries[i].data_source # ""
           /\ analytic_id \in Range(entries[i].analytics)}

\* C10: get_data_source_for_analytic returns exactly one source name for an
\* analytic id that analytics_mapping maps (the source of the last entry of
\* the registry that lists the id) and None for every other id.
C10_OneSourcePerAnalytic ==
    src_op.op = "get_source" =>
        LET analytic_id == src_op.name
            naming == Naming(analytic_id)
            last == CHOOSE i \in naming : \A j \in naming : j <= i
        IN /\ (analytic_id \in DOMAIN analytics_mapping) <=> (naming # {})
           /\ IF naming = {}
              THEN src_op.ret = None
              ELSE /\ src_op.ret = Some(registry_data[1].analytics_mapping[last].data_source)
                   /\ src_op.ret[1] \in {"vendor_risk", "payments"}

\* An id listed under two different sources was resolved to the later one.
C10_Witness ==
    /\ src_op.op = "get_source"
    /\ \E i, j \in Naming(src_op.name) :
          /\ i < j
          /\ registry_data[1].analytics_mapping[i].data_source
                # registry_data[1].analytics_mapping[j].data_source
          /\ src_op.ret = Some(registry_data[1].analytics_mapping[j].data_source)


(***************************************************************************)
(* EnhancedDataProcessor.run_validations.  The dataset has the rows Rows.  *)
(* A rule method is seen from its call site: applied to the dataset and    *)
(* the parameters of a declaration it returns a boolean Series over the    *)
(* rows or raises; which of the two, and the rows it rejects, is what the  *)
(* parameters of the declaration stand for.  rule_a and rule_b are methods *)
(* of ValidationRules, no_such_rule is not.                                *)
(***************************************************************************)
MaxDeclarations == 2

Rows == 1..5
KnownRules == {"rule_a", "rule_b"}
RuleNames == KnownRules \cup {"no_such_rule"}

\* The parameters of a declaration: the rows the rule rejects under them,
\* or that the rule raises under them.
Parameters ==
    {[raises |-> FALSE, fails |-> F] : F \in SUBSET {1, 2, 5}}
        \cup {[raises |-> TRUE, fails |-> {}]}

NoParameters == [raises |-> FALSE, fails |-> {}]

Declarations ==
    {[rule |-> r, parameters |-> p] : r \in KnownRules, p \in Parameters}
        \cup {[rule |-> "no_such_rule", parameters |-> NoParameters]}

RECURSIVE DeclarationLists(_)
DeclarationLists(n) ==
    IF n = 0 THEN {<< >>}
    ELSE {<< >>} \cup {<<d>> \o l : d \in Declarations, l \in DeclarationLists(n - 1)}

\* A variant that leaves the index to pandas: pd.Series([value] * n) is
\* indexed 0..n-1, whatever the index of the dataset.
SeriesDefaultIndex(value) == [row \in 0..(Cardinality(Rows) - 1) |-> value]

\* pd.Series(value, index=self.source_data.index)
Series(value) == [row \in Rows |-> value]

\* What a rule of ValidationRules returns when it does not raise: one
\* boolean per row of the dataset, true where the row conforms.
rule_result(params) == [row \in Rows |-> row \notin params.fails]

\* validation_method(self.source_data, params)
validation_method(rule_name, params) ==
    IF params.raises
    THEN [raised |-> TRUE, result |-> Series(FALSE)]
    ELSE [raised |-> FALSE, result |-> rule_result(params)]

\* The loop over self.config['validations']: validation_results, keyed by
\* rule name, so that a later declaration of a rule replaces the vector an
\* earlier declaration of the same rule left.
RECURSIVE run_rules(_, _)
run_rules(declarations, validation_results) ==
    IF declarations = << >> THEN validation_results
    ELSE LET validation == Head(declarations)
             rule_name == validation.rule
             params == Get(validation, "parameters", NoParameters)
             outcome == validation_method(rule_name, params)
             result == IF rule_name \in KnownRules /\ ~outcome.raised
                       THEN outcome.result
                       ELSE Series(FALSE)
         IN run_rules(Tail(declarations), Put(validation_results, rule_name, result))

\* A variant in which one conforming rule is enough.
any_valid(result_df) ==
    [row \in Rows |-> \E col \in DOMAIN result_df : result_df[col][row]]

\* result_df.all(axis=1); a vector without entry for the row leaves NaN in
\* result_df, which all() skips
all_valid(result_df) ==
    [row \in Rows |-> \A col \in DOMAIN result_df :
                         row \in DOMAIN result_df[col] => result_df[col][row]]

\* A dataset as load_source_data leaves it: no result columns yet.
Loaded == [Valid |-> << >>, Compliance |-> None, DNC_Validated |-> None]

\* EnhancedDataProcessor.run_validations on the dataset df.
run_validations(df) ==
    LET validation_results == run_rules(validations, << >>)
        Compliance == [row \in Rows |->
                          IF all_valid(validation_results)[row] THEN "GC" ELSE "DNC"]
    IN IF DOMAIN validation_results # {}
       THEN [df EXCEPT
               !.Valid = [col \in DOMAIN @ \cup DOMAIN validation_results |->
                             IF col \in DOMAIN validation_results
                             THEN validation_results[col] ELSE @[col]],
               !.Compliance = Some(Compliance),
               !.DNC_Validated = Some([row \in Rows |->
                                   IF Compliance[row] = "DNC" THEN "TBD" ELSE "N/A"])]
       ELSE [df EXCEPT !.Compliance = Some(Series("N/A"))]

\* process_data calls run_validations once on a processor.
RunValidations ==
    /\ proc_op = "init"
    /\ source_data' = IF source_data = None THEN None
                      ELSE Some(run_validations(source_data[1]))
    /\ proc_op' = "run_validations"
    /\ UNCHANGED <<validations, thresholds, summary>>
    /\ UNCHANGED not_proc

\* A processor under every list of declarations, with and without a dataset.
InitVal ==
    /\ IdleRef
    /\ IdleMap
    /\ IdleSrc
    /\ validations \in DeclarationLists(MaxDeclarations)
    /\ source_data \in {None, Some(Loaded)}
    /\ proc_op = "init"
    /\ thresholds = 0
    /\ summary = None
    /\ IdleApp
    /\ IdleRun

NextVal == RunValidations

SpecVal == InitVal /\ [][NextVal]_vars

(***************************************************************************)
(* Properties of run_validations.                                          *)
(***************************************************************************)

\* The last declaration of rule_name in the list.
LastDeclared(rule_name) ==
    LET at == {i \in 1..Len(validations) : validations[i].rule = rule_name}
    IN validations[CHOOSE i \in at : \A j \in at : j <= i]

\* C1: after run_validations on a non-empty list of declarations every
\* declared rule has a result vector (that of its evaluation, row by row),
\* and for every row Compliance is GC iff the vector of every declared rule
\* is true for the row, DNC as soon as one of them is false.
C1_CompliantIffEveryRuleTrue ==
    (proc_op = "run_validations" /\ source_data # None /\ validations # << >>) =>
        LET df == source_data[1]
        IN /\ DOMAIN df.Valid = {validations[i].rule : i \in 1..Len(validations)}
           /\ \A rule_name \in DOMAIN df.Valid \cap KnownRules :
                 ~LastDeclared(rule_name).parameters.raises =>
                     \A row \in Rows :
                         df.Valid[rule_name][row]
                             <=> row \notin LastDeclared(rule_name).parameters.fails
           /\ df.Compliance # None
           /\ \A row \in Rows :
                 /\ df.Compliance[1][row] = "GC"
                       <=> \A rule_name \in DOMAIN df.Valid : df.Valid[rule_name][row]
                 /\ (\E rule_name \in DOMAIN df.Valid : ~df.Valid[rule_name][row])
                       => df.Compliance[1][row] = "DNC"

\* rule_a rejecting rows 2 and 5 and rule_b rejecting row 5 left DNC on
\* rows 2 and 5 and GC on the others.
C1_Witness ==
    /\ proc_op = "run_validations"
    /\ source_data # None
    /\ validations = << [rule |-> "rule_a", parameters |-> [raises |-> FALSE, fails |-> {2, 5}]],
                        [rule |-> "rule_b", parameters |-> [raises |-> FALSE, fails |-> {5}]] >>
    /\ {row \in Rows : source_data[1].Compliance[1][row] = "DNC"} = {2, 5}
    /\ {row \in Rows : source_data[1].Compliance[1][row] = "GC"} = {1, 3, 4}

\* C5: a declaration of an unknown rule, or one whose evaluation raises,
\* leaves for its rule a vector that is False on every row; the remaining
\* declarations are still processed and Compliance is there for every row,
\* DNC on every row.
C5_BadRuleFailsEveryRow ==
    (proc_op = "run_validations" /\ source_data # None) =>
        \A i \in 1..Len(validations) :
            (validations[i].rule \notin KnownRules \/ validations[i].parameters.raises) =>
                LET df == source_data[1]
                IN /\ \A j \in 1..Len(validations) : validations[j].rule \in DOMAIN df.Valid
                   /\ \A row \in Rows : ~df.Valid[validations[i].rule][row]
                   /\ df.Compliance # None
                   /\ \A row \in Rows : df.Compliance[1][row] = "DNC"

\* What C5 says, of the declarations that are the last of their rule: their
\* vector stays, and every row is DNC.
LastBadRuleFailsEveryRow ==
    (proc_op = "run_validations" /\ source_data # None) =>
        \A i \in 1..Len(validations) :
            (/\ validations[i].rule \notin KnownRules \/ validations[i].parameters.raises
             /\ \A j \in (i + 1)..Len(validations) : validations[j].rule # validations[i].rule) =>
                LET df == source_data[1]
                IN /\ \A j \in 1..Len(validations) : validations[j].rule \in DOMAIN df.Valid
                   /\ \A row \in Rows : ~df.Valid[validations[i].rule][row]
                   /\ df.Compliance # None
                   /\ \A row \in Rows : df.Compliance[1][row] = "DNC"


\* C14: after run_validations on a loaded dataset, whatever the list of
\* declarations, every row has one Compliance outcome among GC, PC and DNC,
\* never PC, and a manual-review marker: TBD on a DNC row, N/A on a GC row.
C14_OneOutcomePerRow ==
    (proc_op = "run_validations" /\ source_data # None) =>
        LET df == source_data[1]
        IN /\ df.Compliance # None
           /\ df.DNC_Validated # None
           /\ \A row \in Rows :
                 /\ df.Compliance[1][row] \in {"GC", "PC", "DNC"}
                 /\ df.Compliance[1][row] # "PC"
                 /\ df.Compliance[1][row] = "DNC" => df.DNC_Validated[1][row] = "TBD"
                 /\ df.Compliance[1][row] = "GC" => df.DNC_Validated[1][row] = "N/A"

\* What C14 says, of the runs with at least one declaration.
OneOutcomePerRowOfDeclaredRuns ==
    (proc_op = "run_validations" /\ source_data # None /\ validations # << >>) =>
        LET df == source_data[1]
        IN /\ df.Compliance # None
           /\ df.DNC_Validated # None
           /\ \A row \in Rows :
                 /\ df.Compliance[1][row] \in {"GC", "DNC"}
                 /\ df.Compliance[1][row] = "DNC" => df.DNC_Validated[1][row] = "TBD"
                 /\ df.Compliance[1][row] = "GC" => df.DNC_Validated[1][row] = "N/A"

\* C26: after run_validations on a dataset, every declared rule (one that
\* returned, one that raised, one that is unknown) has left a result vector
\* with exactly one boolean per row of the dataset, indexed as the dataset
\* is, and the Valid_<rule> and Compliance columns have the rows of the
\* dataset, no more and no fewer.
C26_ResultVectorsAligned ==
    (proc_op = "run_validations" /\ source_data # None) =>
        LET df == source_data[1]
        IN /\ \A i \in 1..Len(validations) : validations[i].rule \in DOMAIN df.Valid
           /\ \A col \in DOMAIN df.Valid :
                 /\ DOMAIN df.Valid[col] = Rows
                 /\ \A row \in Rows : df.Valid[col][row] \in BOOLEAN
           /\ df.Compliance # None
           /\ DOMAIN df.Compliance[1] = Rows

\* A run with a rule that rejects some rows and an unknown rule: both have
\* their column.
C26_Witness ==
    /\ proc_op = "run_validations"
    /\ source_data # None
    /\ \E i, j \in 1..Len(validations) :
          /\ validations[i].rule \in KnownRules
          /\ ~validations[i].parameters.raises
          /\ validations[i].parameters.fails # {}
          /\ validations[j].rule \notin KnownRules
          /\ {validations[i].rule, validations[j].rule} \subseteq DOMAIN source_data[1].Valid
          /\ \E row \in Rows : ~source_data[1].Valid[validations[i].rule][row]
          /\ \A row \in Rows : ~source_data[1].Valid[validations[j].rule][row]

(***************************************************************************)
(* EnhancedDataProcessor.generate_summary.  The dataset is grouped by its  *)
(* Region column (config['reporting']['group_by']); percentages and the    *)
(* threshold are counted in hundredths of a percent, so that round(x, 2)   *)
(* is a rounding to an integer.                                            *)
(***************************************************************************)
GroupNames == {"A", "B"}
Thresholds == {0, 1500, 2500}

\* A loaded dataset with a Region column.
Grouped(region) ==
    [Valid |-> << >>, Compliance |-> None, DNC_Validated |-> None, Region |-> region]

\* Series.round(2) of num / den * 100, in hundredths: to the nearest, a tie
\* to the even neighbour.
round2(num, den) ==
    LET q == (num * 10000) \div den
        twice == 2 * ((num * 10000) % den)
    IN IF twice < den THEN q
       ELSE IF twice > den THEN q + 1
       ELSE IF q % 2 = 0 THEN q ELSE q + 1

\* A variant in which reaching the threshold is exceeding it.
reaches_threshold(percentage, threshold) == percentage >= threshold

\* summary['DNC_Percentage'] > threshold
exceeds_threshold(percentage, threshold) == percentage > threshold

\* summary.sum(axis=1): the sum of the counts of one group over the columns.
RECURSIVE sum_columns(_, _)
sum_columns(counts, columns) ==
    IF columns = {} THEN 0
    ELSE LET c == CHOOSE x \in columns : TRUE
         IN counts[c] + sum_columns(counts, columns \ {c})

\* EnhancedDataProcessor.generate_summary: None, or the summary table as a
\* function from the group to its row.
generate_summary(data) ==
    IF data = None THEN None
    ELSE IF data[1].Compliance = None THEN None
    ELSE IF "Region" \notin DOMAIN data[1] THEN None
    ELSE LET df == data[1]
             groups == {df.Region[row] : row \in Rows}
             \* groupby(...).size().unstack(fill_value=0), then the three
             \* categories added as 0 where no row has them
             columns == {df.Compliance[1][row] : row \in Rows} \cup {"GC", "PC", "DNC"}
             counts(g) == [c \in columns |->
                             Cardinality({row \in Rows : /\ df.Region[row] = g
                                                         /\ df.Compliance[1][row] = c})]
             line(g) ==
                 LET Total == sum_columns(counts(g), columns)
                     DNC_Percentage == round2(counts(g)["DNC"], Total)
                 IN [GC |-> counts(g)["GC"],
                     PC |-> counts(g)["PC"],
                     DNC |-> counts(g)["DNC"],
                     Total |-> Total,
                     DNC_Percentage |-> DNC_Percentage,
                     Exceeds_Threshold |-> exceeds_threshold(DNC_Percentage, thresholds)]
         IN Some([g \in groups |-> line(g)])

GenerateSummary ==
    /\ proc_op \in {"init", "run_validations"}
    /\ summary' = generate_summary(source_data)
    /\ proc_op' = "generate_summary"
    /\ UNCHANGED <<validations, source_data, thresholds>>
    /\ UNCHANGED not_proc

\* A processor with no declaration or one, on no dataset, a dataset without
\* the Region column, and every assignment of the rows to the groups.
InitSum ==
    /\ IdleRef
    /\ IdleMap
    /\ IdleSrc
    /\ validations \in DeclarationLists(1)
    /\ source_data \in {None, Some(Loaded)} \cup {Some(Grouped(r)) : r \in [Rows -> GroupNames]}
    /\ proc_op = "init"
    /\ thresholds \in Thresholds
    /\ summary = None
    /\ IdleApp
    /\ IdleRun

NextSum ==
    \/ RunValidations
    \/ GenerateSummary

SpecSum == InitSum /\ [][NextSum]_vars

(***************************************************************************)
(* Properties of generate_summary.                                         *)
(***************************************************************************)

\* C12: in the summary of a dataset on which run_validations has completed,
\* with or without declarations, every group has GC + DNC = Total and
\* DNC_Percentage = round(DNC / Total * 100, 2).
C12_SummaryTotals ==
    (proc_op = "generate_summary" /\ summary # None) =>
        \A g \in DOMAIN summary[1] :
            /\ summary[1][g].GC + summary[1][g].DNC = summary[1][g].Total
            /\ summary[1][g].DNC_Percentage = round2(summary[1][g].DNC, summary[1][g].Total)

\* What C12 says, of the runs with at least one declaration.
SummaryTotalsOfDeclaredRuns ==
    (proc_op = "generate_summary" /\ summary # None /\ validations # << >>) =>
        \A g \in DOMAIN summary[1] :
            /\ summary[1][g].GC + summary[1][g].DNC = summary[1][g].Total
            /\ summary[1][g].DNC_Percentage = round2(summary[1][g].DNC, summary[1][g].Total)

\* C13: a group's Exceeds_Threshold is true iff its DNC_Percentage is
\* strictly greater than the configured threshold.
C13_ExceedsIffStrictlyGreater ==
    (proc_op = "generate_summary" /\ summary # None) =>
        \A g \in DOMAIN summary[1] :
            /\ summary[1][g].Exceeds_Threshold <=> summary[1][g].DNC_Percentage > thresholds
            /\ summary[1][g].DNC_Percentage = thresholds => ~summary[1][g].Exceeds_Threshold
            /\ summary[1][g].Total > 0
            /\ summary[1][g].DNC_Percentage
                  = round2(Cardinality({row \in Rows :
                               /\ source_data[1].Region[row] = g
                               /\ source_data[1].Compliance[1][row] = "DNC"}),
                           Cardinality({row \in Rows : source_data[1].Region[row] = g}))

\* Under a threshold of 25 %, group A (3 GC, 1 DNC: 25.00 %) does not exceed
\* it; under 15 % the same group does, and group B (no DNC) does not.
C13_Witness ==
    /\ proc_op = "generate_summary"
    /\ summary # None
    /\ DOMAIN summary[1] = {"A", "B"}
    /\ summary[1]["A"].GC = 3
    /\ summary[1]["A"].DNC = 1
    /\ summary[1]["A"].DNC_Percentage = 2500
    /\ summary[1]["B"].DNC_Percentage = 0
    /\ ~summary[1]["B"].Exceeds_Threshold
    /\ \/ thresholds = 2500 /\ ~summary[1]["A"].Exceeds_Threshold
       \/ thresholds = 1500 /\ summary[1]["A"].Exceeds_Threshold


\* ---------------------------------------------------------------------------
\* EnhancedQAAnalyticsApp: the Tk thread, the worker threads of _run_analysis
\* and the ReferenceDataManager instances they work on.
\* Thread 0 is the Tk thread; instance 0 is the manager the application makes
\* for itself.  Worker w makes instance w when it constructs its processor.
\* ---------------------------------------------------------------------------

MaxWorkers == 3

UiThread == 0
AppManager == 0
Workers == 1..MaxWorkers
Threads == {UiThread} \cup Workers
Managers == {AppManager} \cup Workers

\* EnhancedQAAnalyticsApp.__init__: the application's own manager is made (and
\* its audit log assigned by _init_audit_log) in the Tk thread.
InitApp ==
    /\ IdleRef /\ IdleMap /\ IdleSrc /\ IdleProc /\ IdleRun
    /\ thread_pc = [t \in Threads |-> IF t = UiThread THEN "mainloop" ELSE "unstarted"]
    /\ manager_of = [w \in Workers |-> None]
    /\ updating = [i \in Managers |-> << >>]
    /\ log_writers = [i \in Managers |-> IF i = AppManager THEN <<UiThread>> ELSE << >>]
    /\ status_var = "Ready"
    /\ progress = FALSE
    /\ after_queue = << >>

\* _run_analysis: a Tk callback that starts the progress bar, sets the
\* status, starts a daemon thread on _process_data and returns; nothing
\* stops a second run from starting while one is going.
RunAnalysis(w) ==
    /\ thread_pc[UiThread] = "mainloop"
    /\ thread_pc[w] = "unstarted"
    /\ progress' = TRUE
    /\ status_var' = "Processing..."
    /\ thread_pc' = [thread_pc EXCEPT ![w] = "_process_data"]
    /\ UNCHANGED <<manager_of, updating, log_writers, after_queue>>
    /\ UNCHANGED not_app

\* _process_data, first step: EnhancedDataProcessor(config) makes a new
\* ReferenceDataManager, whose __init__ assigns that instance's audit_log.
ConstructProcessor(w) ==
    /\ thread_pc[w] = "_process_data"
    /\ manager_of' = [manager_of EXCEPT ![w] = Some(w)]
    /\ log_writers' = [log_writers EXCEPT ![w] = Append(@, w)]
    /\ thread_pc' = [thread_pc EXCEPT ![w] = "process_data"]
    /\ UNCHANGED updating
    /\ UNCHANGED ui_vars
    /\ UNCHANGED not_app

\* How the rest of _process_data can go: process_data and the reports
\* succeed, process_data returns no success, or something raises.
RunOutcomes == {"success", "failed", "raised"}

\* The callbacks _process_data hands to root.after(0, ...) on its way out,
\* in order; the last two are those of the finally clause.
scheduled(outcome) ==
    (IF outcome = "success" THEN <<"showinfo", "set_ready">> ELSE <<"showerror">>)
        \o <<"progress.stop", "set_ready">>

\* processor.process_data: of the manager it only calls get_reference_data
\* and check_freshness, neither of which touches audit_log.  The thread
\* then writes the reports, schedules its callbacks and ends.
WorkerProcessData(w, outcome) ==
    /\ thread_pc[w] = "process_data"
    /\ thread_pc' = [thread_pc EXCEPT ![w] = "done"]
    /\ after_queue' = after_queue \o scheduled(outcome)
    /\ UNCHANGED <<manager_of, updating, log_writers, status_var, progress>>
    /\ UNCHANGED not_app

\* The Tk main loop runs the next callback of root.after.
RunCallback ==
    /\ thread_pc[UiThread] = "mainloop"
    /\ after_queue # << >>
    /\ after_queue' = Tail(after_queue)
    /\ progress' = IF Head(after_queue) = "progress.stop" THEN FALSE ELSE progress
    /\ status_var' = IF Head(after_queue) = "set_ready" THEN "Ready" ELSE status_var
    /\ UNCHANGED app_vars
    /\ UNCHANGED not_app

\* The same callback entered again before an earlier update has returned, as
\* it would be were the update handed to a thread of its own.
UpdateReferenceFileInThread(t) ==
    /\ t = UiThread
    /\ Len(log_writers[AppManager]) + Len(updating[AppManager]) <= MaxLog
    /\ thread_pc' = [thread_pc EXCEPT ![t] = "update_reference_data"]
    /\ updating' = [updating EXCEPT ![AppManager] = Append(@, t)]
    /\ UNCHANGED <<manager_of, log_writers>>
    /\ UNCHANGED ui_vars
    /\ UNCHANGED not_app

\* _update_reference_file: a Tk callback; after the dialogs it calls
\* update_reference_data on the application's manager and only then returns
\* to the main loop.
UpdateReferenceFile(t) ==
    /\ t = UiThread
    /\ thread_pc[t] = "mainloop"
    /\ Len(log_writers[AppManager]) <= MaxLog
    /\ thread_pc' = [thread_pc EXCEPT ![t] = "update_reference_data"]
    /\ updating' = [updating EXCEPT ![AppManager] = Append(@, t)]
    /\ UNCHANGED <<manager_of, log_writers>>
    /\ UNCHANGED ui_vars
    /\ UNCHANGED not_app

\* update_reference_data up to the append: the load fails and the call
\* returns False, or the entry is appended to that instance's audit_log.
UpdateAppends(t, loaded) ==
    /\ thread_pc[t] = "update_reference_data"
    /\ IF loaded
       THEN /\ log_writers' = [log_writers EXCEPT ![AppManager] = Append(@, t)]
            /\ thread_pc' = [thread_pc EXCEPT ![t] = "_save_audit_log"]
            /\ UNCHANGED updating
       ELSE /\ thread_pc' = [thread_pc EXCEPT ![t] = "mainloop"]
            /\ updating' = [updating EXCEPT ![AppManager] = Tail(@)]
            /\ UNCHANGED log_writers
    /\ UNCHANGED manager_of
    /\ UNCHANGED ui_vars
    /\ UNCHANGED not_app

\* update_reference_data from _save_audit_log to its return.
UpdateReturns(t) ==
    /\ thread_pc[t] = "_save_audit_log"
    /\ thread_pc' = [thread_pc EXCEPT ![t] = "mainloop"]
    /\ updating' = [updating EXCEPT ![AppManager] = Tail(@)]
    /\ UNCHANGED <<manager_of, log_writers>>
    /\ UNCHANGED ui_vars
    /\ UNCHANGED not_app

NextApp ==
    \/ \E w \in Workers : RunAnalysis(w)
    \/ \E w \in Workers : ConstructProcessor(w)
    \/ \E w \in Workers, outcome \in RunOutcomes : WorkerProcessData(w, outcome)
    \/ RunCallback
    \/ UpdateReferenceFile(UiThread)
    \/ \E loaded \in BOOLEAN : UpdateAppends(UiThread, loaded)
    \/ UpdateReturns(UiThread)

SpecApp == InitApp /\ [][NextApp]_vars

\* C18: in every interleaving of pipeline runs and UI actions at most one
\* update_reference_data call is in progress on any ReferenceDataManager
\* instance, and the audit log of an instance that is being updated has only
\* ever been assigned or appended by the thread that is updating it, so no
\* pipeline run mutates it.
C18_UpdatesAreSerialized ==
    \A i \in DOMAIN updating :
        /\ Len(updating[i]) <= 1
        /\ updating[i] # << >> =>
               \A k \in 1..Len(log_writers[i]) : log_writers[i][k] = updating[i][1]

\* An update of the application's manager is in progress while one worker has
\* made its own manager and another is still to make one.
C18_Witness ==
    /\ DOMAIN updating # {}
    /\ updating[AppManager] = <<UiThread>>
    /\ thread_pc[UiThread] = "_save_audit_log"
    /\ \E w \in Workers : thread_pc[w] = "process_data" /\ log_writers[w] = <<w>>
    /\ \E w \in Workers : thread_pc[w] = "_process_data"

\* The application under a scheduler that lets every started thread run on
\* and a main loop that, however often a user event takes it away, comes
\* back to the callbacks of root.after.
FairApp ==
    /\ SpecApp
    /\ \A w \in Workers : WF_vars(ConstructProcessor(w))
    /\ \A w \in Workers : WF_vars(\E outcome \in RunOutcomes : WorkerProcessData(w, outcome))
    /\ WF_vars(\E loaded \in BOOLEAN : UpdateAppends(UiThread, loaded))
    /\ WF_vars(UpdateReturns(UiThread))
    /\ SF_vars(RunCallback)

\* A run of _process_data has started and not yet ended.
InProgress(w) == thread_pc[w] \in {"_process_data", "process_data"}

\* C30, its second half: while any run started by _run_analysis is still in
\* progress, several runs started one after the other included, the status
\* is 'Processing...' and the progress indicator is running.
C30_ProcessingWhileRunInProgress ==
    (\E w \in Workers : InProgress(w)) =>
        (status_var = "Processing..." /\ progress)

\* C30, its first half: every run that has started comes to its end with
\* the progress indicator stopped and the status 'Ready'.
RunsEndReady ==
    \A w \in Workers :
        InProgress(w) ~> (thread_pc[w] = "done" /\ ~progress /\ status_var = "Ready")

\* What the second half says, of an application in which one run at most
\* has been started.
ProcessingWhileOnlyRunInProgress ==
    (/\ \E w \in Workers : InProgress(w)
     /\ Cardinality({w \in Workers : thread_pc[w] # "unstarted"}) = 1) =>
        (status_var = "Processing..." /\ progress)

\* ---------------------------------------------------------------------------
\* EnhancedDataProcessor.load_source_data and process_data: one processor with
\* the two managers its constructor makes, on one config and one source file.
\* ---------------------------------------------------------------------------

\* config['source'] of the legacy format
LegacySource ==
    [required_columns |-> << [name |-> "Vendor", alias |-> << >>],
                             [name |-> "Amount", alias |-> <<"Amt">>] >>]

\* The same with a third required column, which only a renaming by the
\* registry gives a file.
LegacySourceWithDate ==
    [required_columns |-> LegacySource.required_columns \o
                              << [name |-> "Invoice Date", alias |-> << >>] >>]

\* config['data_source'] of the new format, without and with a name
DataSourceSections ==
    {[required_fields |-> <<"Vendor", "Amount">>],
     [name |-> "vendor_risk", required_fields |-> <<"Vendor", "Amount">>]}

\* the names under config['reference_data']
ReferenceSections == {<< >>, <<"country_codes">>, <<"broken">>, <<"country_codes", "broken">>}

\* config['reference_files'] of the legacy format: absent, or an entry for
\* the name the manager cannot load
LegacyReferenceFiles ==
    {<< >>,
     << [name |-> "broken", path |-> "cc_v2.xlsx",
         key_column |-> "code", value_column |-> "name"] >>}

\* The configs explored: analytic 1001 is mapped by the registry, 1003 is not.
ProcConfigs ==
    {LET base == [analytic_id |-> a, reference_data |-> r, reference_files |-> l,
                  reporting |-> [group_by |-> g]]
         legacy == IF s = None THEN base ELSE Put(base, "source", s[1])
     IN IF d = None THEN legacy ELSE Put(legacy, "data_source", d[1]) :
        a \in {"1001", "1003"},
        s \in {None, Some(LegacySource), Some(LegacySourceWithDate)},
        d \in {None} \cup {Some(x) : x \in DataSourceSections},
        r \in ReferenceSections, l \in LegacyReferenceFiles,
        g \in {"Vendor", "Region"}}

\* lines 36-47: the name under config['data_source'], else the registry's
\* mapping of str(config.get('analytic_id'))
data_source_name ==
    LET named == IF "data_source" \in DOMAIN proc_config
                 THEN Get(proc_config.data_source, "name", "")
                 ELSE ""
    IN IF named # "" THEN Some(named)
       ELSE get_data_source_for_analytic(proc_config.analytic_id)

\* The values of the group_by column in the files that have it.
GroupColumn == [row \in Rows |-> IF row <= 3 THEN "A" ELSE "B"]

\* self.source_data as run_validations and generate_summary see it: Region
\* stands for the column config['reporting']['group_by'] names.
frame(df) ==
    LET base == [Valid |-> << >>, Compliance |-> None, DNC_Validated |-> None,
                 columns |-> df.columns, row_count |-> df.row_count]
    IN IF proc_config.reporting.group_by \in Range(df.columns)
       THEN Put(base, "Region", GroupColumn)
       ELSE base

\* EnhancedDataProcessor._check_required_columns on the columns
check_required_columns(columns) ==
    LET required_columns ==
            IF "source" \in DOMAIN proc_config
            THEN [i \in 1..Len(proc_config.source.required_columns) |->
                     proc_config.source.required_columns[i].name]
            ELSE IF "data_source" \in DOMAIN proc_config
            THEN proc_config.data_source.required_fields
            ELSE <<"No source configuration found">>
    IN SelectSeq(required_columns, LAMBDA col : col \notin Range(columns))

\* A variant of the direct path that loads whatever columns the file has.
load_directly_lenient(file_path) ==
    LET f == DataFile(file_path)
        raw == [columns |-> f.columns, row_count |-> f.row_count]
    IN IF ~(f.exists /\ f.ext \in ExcelExts /\ f.reads)
       THEN [ok |-> FALSE, source_data |-> source_data]
       ELSE IF "source" \notin DOMAIN proc_config
       THEN [ok |-> FALSE, source_data |-> Some(frame(raw))]
       ELSE LET mapped == [raw EXCEPT !.columns =
                              map_column_aliases(raw.columns,
                                                 proc_config.source.required_columns)]
            IN [ok |-> TRUE, source_data |-> Some(frame(mapped))]

\* lines 62-78, the direct path: pd.read_excel raises unless the file is a
\* readable workbook, _map_column_aliases raises KeyError on a config without
\* 'source'; both end in the except clause of load_source_data.
load_directly(file_path) ==
    LET f == DataFile(file_path)
        raw == [columns |-> f.columns, row_count |-> f.row_count]
    IN IF ~(f.exists /\ f.ext \in ExcelExts /\ f.reads)
       THEN [ok |-> FALSE, source_data |-> source_data]
       ELSE IF "source" \notin DOMAIN proc_config
       THEN [ok |-> FALSE, source_data |-> Some(frame(raw))]
       ELSE LET mapped == [raw EXCEPT !.columns =
                              map_column_aliases(raw.columns,
                                                 proc_config.source.required_columns)]
                missing_columns == check_required_columns(mapped.columns)
            IN [ok |-> missing_columns = << >>, source_data |-> Some(frame(mapped))]

\* EnhancedDataProcessor.load_source_data(file_path)
load_source_data(file_path) ==
    LET name == data_source_name
    IN IF name # None
       THEN LET r == load_data_source(name[1], file_path)
            IN IF ~r.success
               THEN [ok |-> FALSE, source_data |-> source_data,
                     warnings |-> proc_warnings, loaded_sources |-> r.loaded_sources]
               ELSE [ok |-> TRUE, source_data |-> Some(frame(r.df[1])),
                     warnings |-> proc_warnings \o r.warnings,
                     loaded_sources |-> r.loaded_sources]
       ELSE LET r == load_directly(file_path)
            IN [ok |-> r.ok, source_data |-> r.source_data,
                warnings |-> proc_warnings, loaded_sources |-> loaded_sources]

\* check_freshness(ref_name) on the metadata the loads of this run have left
fresh_after(ref_name, md) ==
    IF ref_name \notin DOMAIN md THEN "False"
    ELSE LET limit == max_age_used(ref_name, None)
             age == now - md[ref_name].last_modified
         IN IF limit = None THEN "TypeError"
            ELSE Bool(Days(age) <= limit[1])

\* lines 172-201: the legacy fallback for a name the manager gave no data for
legacy_loads(ref_name) ==
    LET legacy == SelectSeq(Get(proc_config, "reference_files", << >>),
                            LAMBDA ref : ref.name = ref_name)
    IN /\ legacy # << >>
       /\ LET f == RefFile(legacy[1].path)
          IN /\ f.exists
             /\ f.ext \in ExcelExts
             /\ f.reads
             /\ {legacy[1].key_column, legacy[1].value_column} \subseteq Range(f.columns)

\* lines 166-214: the loop over the reference section; a name that fails
\* clears success and the loop goes on.
RECURSIVE load_references(_, _)
load_references(names, acc) ==
    IF names = << >> THEN acc
    ELSE LET ref_name == Head(names)
             r == load_reference_data(ref_name, None)
             have == ref_name \in DOMAIN acc.reference_data
             got == have \/ r.ok
             rd == IF have \/ ~r.ok THEN acc.reference_data
                   ELSE Put(acc.reference_data, ref_name, r.reference_data[ref_name])
             md == IF have \/ ~r.ok THEN acc.metadata
                   ELSE Put(acc.metadata, ref_name, r.metadata[ref_name])
             stale == got /\ fresh_after(ref_name, md) = "False"
         IN load_references(Tail(names),
                [ok |-> acc.ok /\ (got \/ legacy_loads(ref_name)),
                 reference_data |-> rd,
                 metadata |-> md,
                 warnings |-> IF stale
                              THEN Append(acc.warnings, <<"may be stale", ref_name>>)
                              ELSE acc.warnings])

\* EnhancedDataProcessor.load_reference_data, with self.warnings as the
\* first step left it
processor_load_reference_data(warnings_so_far) ==
    LET reference_section ==
            Get(proc_config, "reference_data", Get(proc_config, "reference_files", << >>))
        start == [ok |-> TRUE, reference_data |-> reference_data,
                  metadata |-> metadata, warnings |-> warnings_so_far]
    IN IF reference_section = << >> THEN start
       ELSE load_references(reference_section, start)

\* process_data returning at a step that reported failure
stopped(message, called, s1, s2) ==
    [ret |-> FALSE, message |-> <<message>>, steps |-> called,
     source_data |-> s1.source_data, loaded_sources |-> s1.loaded_sources,
     reference_data |-> s2.reference_data, metadata |-> s2.metadata,
     warnings |-> s2.warnings, summary |-> None, results |-> results]

\* lines 338-356: steps 3 and 4 and the results.  Each step is called once
\* and its value kept: validated and table are bound to the one value of the
\* call, as the locals of process_data are.
validate_and_summarize(s1, s2) ==
    LET called == <<"load_source_data", "load_reference_data",
                    "run_validations", "generate_summary">>
        finished(validated, table) ==
            IF table = None
            THEN stopped("Failed to generate summary", called,
                         [s1 EXCEPT !.source_data = validated], s2)
            ELSE [ret |-> TRUE,
                  message |-> IF s2.warnings # << >>
                              THEN <<"Processing complete with warnings", Len(s2.warnings)>>
                              ELSE <<"Processing complete">>,
                  steps |-> called,
                  source_data |-> validated, loaded_sources |-> s1.loaded_sources,
                  reference_data |-> s2.reference_data, metadata |-> s2.metadata,
                  warnings |-> s2.warnings, summary |-> table,
                  results |-> Some([detail |-> validated[1], summary |-> table[1],
                                    warnings |-> s2.warnings])]
    IN CHOOSE r \in
           {CHOOSE r \in {finished(validated, table) :
                             table \in {generate_summary(validated)}} : TRUE :
               validated \in {IF s1.source_data = None THEN None
                              ELSE Some(run_validations(s1.source_data[1]))}} : TRUE

\* The manager's state and self.warnings when load_reference_data is not called.
not_called(s1) ==
    [ok |-> TRUE, reference_data |-> reference_data, metadata |-> metadata,
     warnings |-> s1.warnings]

\* A variant that goes on to the validations whatever load_reference_data
\* returned.
process_data_reference_optional(source_file) ==
    LET after_reference(s1, s2) == validate_and_summarize(s1, s2)
        after_source(s1) ==
            IF ~s1.ok
            THEN stopped("Failed to load source data", <<"load_source_data">>,
                         s1, not_called(s1))
            ELSE CHOOSE r \in {after_reference(s1, s2) :
                                  s2 \in {processor_load_reference_data(s1.warnings)}} : TRUE
    IN CHOOSE r \in {after_source(s1) : s1 \in {load_source_data(source_file)}} : TRUE

\* EnhancedDataProcessor.process_data(source_file); s1 and s2 are what the
\* first two steps returned and left behind.
process_data(source_file) ==
    LET after_reference(s1, s2) ==
            IF ~s2.ok
            THEN stopped("Failed to load reference data",
                         <<"load_source_data", "load_reference_data">>, s1, s2)
            ELSE validate_and_summarize(s1, s2)
        after_source(s1) ==
            IF ~s1.ok
            THEN stopped("Failed to load source data", <<"load_source_data">>,
                         s1, not_called(s1))
            ELSE CHOOSE r \in {after_reference(s1, s2) :
                                  s2 \in {processor_load_reference_data(s1.warnings)}} : TRUE
    IN CHOOSE r \in {after_source(s1) : s1 \in {load_source_data(source_file)}} : TRUE

LoadSourceData(file_path) ==
    /\ proc_op = "init"
    /\ \E r \in {load_source_data(file_path)} :
          /\ source_data' = r.source_data
          /\ proc_warnings' = r.warnings
          /\ loaded_sources' = r.loaded_sources
          /\ returned' = Some([op |-> "load_source_data", arg |-> file_path,
                               ret |-> r.ok, message |-> << >>])
    /\ proc_op' = "load_source_data"
    /\ UNCHANGED <<validations, thresholds, summary, proc_config, results, steps>>
    /\ UNCHANGED <<registry_data, registry, analytics_mapping, settings, src_op>>
    /\ UNCHANGED <<ref_vars, map_vars, app_vars, ui_vars>>

ProcessData(source_file) ==
    /\ proc_op = "init"
    /\ \E r \in {process_data(source_file)} :
          /\ source_data' = r.source_data
          /\ proc_warnings' = r.warnings
          /\ loaded_sources' = r.loaded_sources
          /\ reference_data' = r.reference_data
          /\ metadata' = r.metadata
          /\ summary' = r.summary
          /\ results' = r.results
          /\ steps' = r.steps
          /\ returned' = Some([op |-> "process_data", arg |-> source_file,
                               ret |-> r.ret, message |-> r.message])
    /\ proc_op' = "process_data"
    /\ UNCHANGED <<validations, thresholds, proc_config>>
    /\ UNCHANGED <<registry_data, registry, analytics_mapping, settings, src_op>>
    /\ UNCHANGED <<config, audit_log, audit_file, now, ref_op>>
    /\ UNCHANGED <<map_vars, app_vars, ui_vars>>

\* The declarations of the runs explored: none, or rule_a accepting every
\* row, rejecting the first, or raising.
RunValidationLists ==
    {l \in DeclarationLists(1) :
        \A i \in 1..Len(l) : l[i].rule = "rule_a" /\ l[i].parameters.fails \subseteq {1}}

\* EnhancedDataProcessor.__init__(config): a new reference data manager and a
\* new data source manager on the standard registry.
InitRun ==
    /\ IdleMap
    /\ IdleApp
    /\ Constructed(Some(StandardRegistry))
    /\ config = [reference_files |-> ReferenceFiles]
    /\ reference_data = << >>
    /\ metadata = << >>
    /\ audit_log = << >>
    /\ audit_file = [state |-> "absent", entries |-> << >>]
    /\ now \in {0, MaxNow}
    /\ ref_op = Called("init", "", None, "None")
    /\ validations \in RunValidationLists
    /\ source_data = None
    /\ proc_op = "init"
    /\ thresholds = 1500
    /\ summary = None
    /\ proc_config \in ProcConfigs
    /\ proc_warnings = << >>
    /\ results = None
    /\ steps = << >>
    /\ returned = None

NextRun ==
    \/ \E file_path \in DataPaths : LoadSourceData(file_path)
    \/ \E source_file \in DataPaths : ProcessData(source_file)

SpecRun == InitRun /\ [][NextRun]_vars

(***************************************************************************)
(* Properties of process_data and load_source_data.                        *)
(***************************************************************************)

StepOrder ==
    <<"load_source_data", "load_reference_data", "run_validations", "generate_summary">>

\* C19: process_data calls its steps in the order load source data, load
\* reference data, run validations, generate summary; a step that reports
\* failure is the last one called, nothing of a later step is left behind and
\* the call returns (False, the message of that step); self.results holds
\* detail, summary and warnings exactly when the call returns success and is
\* None after a failed run.
C19_StepsInOrderResultsOnSuccess ==
    (returned # None /\ returned[1].op = "process_data") =>
        LET r == returned[1]
            n == Len(steps)
        IN /\ n >= 1
           /\ IsPrefix(steps, StepOrder)
           /\ r.ret <=> results # None
           /\ r.ret =>
                  /\ steps = StepOrder
                  /\ results[1] = [detail |-> source_data[1], summary |-> summary[1],
                                   warnings |-> proc_warnings]
                  /\ source_data[1].Compliance # None
                  /\ r.message[1] \in {"Processing complete",
                                      "Processing complete with warnings"}
           /\ ~r.ret =>
                  /\ summary = None
                  /\ r.message = <<"Failed to load source data">> <=> n = 1
                  /\ r.message = <<"Failed to load reference data">> <=> n = 2
                  /\ r.message = <<"Failed to generate summary">> <=> n = 4
                  /\ n \in {1, 2, 4}
           \* a source file that is not there fails the first step
           /\ ~DataFile(r.arg).exists => n = 1
           \* after a failed first step no reference data has been asked for
           /\ n = 1 => reference_data = << >> /\ metadata = << >>
           \* before the third step no row has an outcome
           /\ (n <= 2 /\ source_data # None) => source_data[1].Compliance = None
           \* a reference name neither the manager nor the legacy entries can
           \* load fails the second step
           /\ (n >= 2 /\ "broken" \in Range(proc_config.reference_data)
                      /\ proc_config.reference_files = << >>) => n = 2

\* A run has loaded its source data and stopped at the reference data: the
\* dataset is there, without outcomes, and there are no results.
C19_Witness ==
    /\ returned # None
    /\ returned[1].op = "process_data"
    /\ returned[1].message = <<"Failed to load reference data">>
    /\ source_data # None
    /\ "country_codes" \in DOMAIN reference_data
    /\ results = None

\* A run has gone through its four steps and set the results.
ProcessDataSucceeds ==
    /\ returned # None
    /\ returned[1].op = "process_data"
    /\ returned[1].ret
    /\ results # None
    /\ proc_warnings # << >>

\* C20: load_source_data has two policies for missing required columns: with
\* a source name resolved, a dataset that lacks columns of the source's
\* required_columns rule loads with a warning; with no source name resolved,
\* a file that lacks a required column of the config makes it return False.
C20_MissingColumnsTwoPolicies ==
    (returned # None /\ returned[1].op = "load_source_data") =>
        LET r == returned[1]
            f == DataFile(r.arg)
            name == data_source_name
            has(col) == col \in Range(f.columns)
        IN IF name # None
           THEN LET source_config == registry[name[1]]
                    rules == Get(source_config, "validation_rules", << >>)
                    loadable == /\ f.exists
                                /\ f.ext \in ExcelExts \cup {".csv"}
                                /\ reader_returns(source_config, f)
                                /\ f.row_count > 0
                    missing == \E i \in 1..Len(rules) :
                                  /\ rules[i].type = "required_columns"
                                  /\ \E col \in Range(rules[i].columns) : ~has(col)
                IN (name[1] \in DOMAIN registry /\ loadable /\ missing) =>
                       /\ r.ret
                       /\ source_data # None
                       /\ \E i \in 1..Len(proc_warnings) :
                              proc_warnings[i][1] = "Missing required columns"
           ELSE LET readable == f.exists /\ f.ext \in ExcelExts /\ f.reads
                    missing ==
                        IF "source" \in DOMAIN proc_config
                        THEN \E col \in Range(proc_config.source.required_columns) :
                                 /\ ~has(col.name)
                                 /\ \A alias \in Range(col.alias) : ~has(alias)
                        ELSE /\ "data_source" \in DOMAIN proc_config
                             /\ \E col \in Range(proc_config.data_source.required_fields) :
                                    ~has(col)
                IN (readable /\ missing) => ~r.ret

\* With no source name resolved, a readable workbook that lacks a required
\* column of the config has been refused.
C20_Witness ==
    /\ returned # None
    /\ returned[1].op = "load_source_data"
    /\ data_source_name = None
    /\ "source" \in DOMAIN proc_config
    /\ returned[1].arg = "vendor.xlsx"
    /\ source_data # None
    /\ "Amount" \in Range(source_data[1].columns)
    /\ ~returned[1].ret

\* With a source name resolved, a dataset that lacks a required column has
\* been loaded with the warning.
RegistryLoadWarnsOfMissingColumns ==
    /\ returned # None
    /\ returned[1].op = "load_source_data"
    /\ data_source_name = Some("vendor_risk")
    /\ returned[1].arg = "vendor.xlsx"
    /\ returned[1].ret
    /\ \E i \in 1..Len(proc_warnings) : proc_warnings[i][1] = "Missing required columns"

====
